---- MODULE Spec2Model ----
(***************************************************************************)
(* Model of the LLM-backed product-intelligence core of ai-price-tracker:  *)
(* the process-wide RateLimiter, makeStreamingRequest's retry loop, the    *)
(* ProductIntelligenceService operations, the PriceIntelligenceWorkflow    *)
(* and the per-user search quota kept on the User document.                *)
(*                                                                         *)
(* The module holds several specifications over one set of variables; a    *)
(* specification leaves the variables of the others untouched.             *)
(*   SpecQuota : RateLimiter + clock + concurrent makeGeminiRequest calls  *)
(*   SpecRetry : one makeStreamingRequest call against a scripted upstream *)
(*   SpecSearch: one searchProductsAcrossPlatforms call                    *)
(*   SpecParse : the array extraction of that call, on serialised lists    *)
(*   SpecFlow  : concurrent searchAndAnalyze requests of one user          *)
(*   SpecLimit : concurrent checkSearchLimit runs of one user              *)
(*   SpecIncrement: concurrent incrementUserSearchCount calls              *)
(*   SpecOps   : one call of a ProductIntelligenceService operation        *)
(*   SpecChain : the operations one workflow calls, one after the other    *)
(*   SpecWorkflow: one executeWorkflow call with the values of its state   *)
(*   SpecRecommend: createRecommendation over typed inputs                 *)
(***************************************************************************)
EXTENDS Integers, Sequences, FiniteSets, TLC

VARIABLES
    \* ---- SpecQuota -----------------------------------------------------
    rl,          \* the RateLimiter singleton: requests, dailyRequests, lastReset, dailyReset
    now,         \* the wall clock, in whole seconds since Jan 1 00:00:00 local time
    ticks,       \* how many times the clock has advanced (bounded)
    callLog,     \* ghost: time of recordRequest() |-> number of calls recorded at that time
    windowStarts,\* ghost: every value lastReset has had
    lastEval,    \* ghost: the latest canMakeRequest() evaluation, n the number so far
    op,          \* per caller: the makeGeminiRequest / makeStreamingRequest position
    \* ---- SpecRetry -----------------------------------------------------
    rq,          \* one makeStreamingRequest call
    \* ---- SpecSearch ----------------------------------------------------
    sp,          \* one searchProductsAcrossPlatforms call
    \* ---- SpecOps ---------------------------------------------------------
    call,        \* one call of a ProductIntelligenceService operation
    \* ---- SpecWorkflow ----------------------------------------------------
    wf,          \* one PriceIntelligenceWorkflow.executeWorkflow call
    \* ---- SpecFlow ------------------------------------------------------
    user,        \* the persisted User document: searchCount, searchLimitResetsAt
    fnow,        \* the wall clock of SpecFlow, in hours
    searches,    \* the persisted ProductSearch records of the user
    req,         \* per request: position in searchAndAnalyze and its locals
    audit        \* ghost: what has happened to the user's quota since Init

quotaVars  == <<rl, now, ticks, callLog, windowStarts, lastEval, op>>
retryVars  == <<rq>>
searchVars == <<sp>>
opsVars    == <<call, wf>>
flowVars   == <<user, fnow, searches, req, audit>>
vars == <<rl, now, ticks, callLog, windowStarts, lastEval, op, rq, sp,
          call, wf, user, fnow, searches, req, audit>>

Max(a, b) == IF a >= b THEN a ELSE b
Min(a, b) == IF a <= b THEN a ELSE b

RECURSIVE SumOver(_, _)
\* the sum of f[x] for x in S
SumOver(f, S) ==
    IF S = {} THEN 0
    ELSE LET x == CHOOSE y \in S : TRUE IN f[x] + SumOver(f, S \ {x})

(***************************************************************************)
(* GEMINI_CONFIG                                                           *)
(***************************************************************************)
requestsPerMinute == 60
requestsPerDay == 1000
maxRetriesDefault == 3
retryDelay == 1000

(***************************************************************************)
(* Date: an instant is a number of whole seconds since Jan 1 00:00:00      *)
(* local time of a non-leap year; getTime() is the instant itself (in      *)
(* seconds, so the code's 60000 ms is 60), getDate() its day of the month. *)
(***************************************************************************)
SecondsPerDay == 24 * 60 * 60
MonthLengths == <<31, 28, 31, 30, 31, 30, 31, 31, 30, 31, 30, 31>>

DayIndex(t) == t \div SecondsPerDay

RECURSIVE DayOfMonthFrom(_, _)
DayOfMonthFrom(d, m) ==
    IF d < MonthLengths[m] THEN d + 1
    ELSE DayOfMonthFrom(d - MonthLengths[m], m + 1)

\* Date.prototype.getDate(): the day of the month, 1..31
getDate(t) == DayOfMonthFrom(DayIndex(t) % 365, 1)

(***************************************************************************)
(* class RateLimiter                                                       *)
(***************************************************************************)
\* now.getTime() - this.lastReset.getTime() >= 60000
WindowSeconds == 60

\* a mutated window test: a window of exactly 60 s is not yet over
canMakeRequestRollStrict(r, t) ==
    LET r1 == IF t - r.lastReset > WindowSeconds
              THEN [r EXCEPT !.requests = 0, !.lastReset = t]
              ELSE r
    IN  IF getDate(t) # getDate(r1.dailyReset)
        THEN [r1 EXCEPT !.dailyRequests = 0, !.dailyReset = t]
        ELSE r1

\* the two lazy resets of canMakeRequest(), in the code's order
canMakeRequestRoll(r, t) ==
    LET r1 == IF t - r.lastReset >= WindowSeconds
              THEN [r EXCEPT !.requests = 0, !.lastReset = t]
              ELSE r
    IN  IF getDate(t) # getDate(r1.dailyReset)
        THEN [r1 EXCEPT !.dailyRequests = 0, !.dailyReset = t]
        ELSE r1

\* a mutated comparison: the last unit of capacity is handed out twice
canMakeRequestAnswerOffByOne(r) ==
    /\ r.requests <= requestsPerMinute
    /\ r.dailyRequests <= requestsPerDay

\* the value canMakeRequest() returns once the windows are rolled
canMakeRequestAnswer(r) ==
    /\ r.requests < requestsPerMinute
    /\ r.dailyRequests < requestsPerDay

\* canMakeRequest() at time t on limiter r: the boolean it returns
canMakeRequest(r, t) == canMakeRequestAnswer(canMakeRequestRoll(r, t))

recordRequest(r) ==
    [r EXCEPT !.requests = @ + 1, !.dailyRequests = @ + 1]

getRemainingRequests(r) ==
    [perMinute |-> Max(0, requestsPerMinute - r.requests),
     perDay    |-> Max(0, requestsPerDay - r.dailyRequests)]

(***************************************************************************)
(* SpecQuota: callers of ProductIntelligenceService.makeGeminiRequest on   *)
(* one event loop.  The code between two awaits runs without interleaving, *)
(* so canMakeRequest(), recordRequest() and the issue of the first         *)
(* generateContentStream() call are one step; every await is a point where *)
(* another caller, or the clock, may move.                                 *)
(***************************************************************************)
Procs == {"p1", "p2"}
MaxCalls == 3      \* makeGeminiRequest calls made in all
MaxTicks == 2      \* clock advances

\* the clock advances by a second, a minute or a 31-day month
ClockSteps == {1, WindowSeconds, 31 * SecondsPerDay}

\* the limiter is constructed, and the histories below end, at 23:59:59 on Jan 1
StartOfClock == SecondsPerDay - 1

IdleOp == [pc |-> "idle", attempt |-> 0, units |-> 0, attempts |-> 0]

\* States of the limiter after a run of the program, with the calls that led
\* there: freshly constructed; 59 calls in the second of construction; and
\* sixteen minutes of traffic (15 full windows, one of 40, then 59 calls in
\* the window opened at StartOfClock).
QuotaHistories ==
    { [rl  |-> [requests |-> 0, dailyRequests |-> 0,
                lastReset |-> StartOfClock, dailyReset |-> StartOfClock],
       log |-> << >>,
       starts |-> {StartOfClock}],
      [rl  |-> [requests |-> 59, dailyRequests |-> 59,
                lastReset |-> StartOfClock, dailyReset |-> StartOfClock],
       log |-> (StartOfClock :> 59),
       starts |-> {StartOfClock}],
      [rl  |-> [requests |-> 59, dailyRequests |-> 999,
                lastReset |-> StartOfClock, dailyReset |-> StartOfClock - 16 * 60],
       log |-> [t \in {StartOfClock - 60 * i : i \in 0..16} |->
                    IF t = StartOfClock THEN 59
                    ELSE IF t = StartOfClock - 60 THEN 40 ELSE 60],
       starts |-> {StartOfClock - 60 * i : i \in 0..16}] }

QuotaIdle ==
    /\ rl = [requests |-> 0, dailyRequests |-> 0, lastReset |-> 0, dailyReset |-> 0]
    /\ now = 0 /\ ticks = 0 /\ callLog = << >> /\ windowStarts = {}
    /\ lastEval = [t |-> 0, prev |-> 0, before |-> rl, after |-> rl, answer |-> TRUE, n |-> 0]
    /\ op = [p \in Procs |-> IdleOp]

InitQuotaState ==
    /\ \E h \in QuotaHistories :
          /\ rl = h.rl
          /\ callLog = h.log
          /\ windowStarts = h.starts
          /\ lastEval = [t |-> StartOfClock, prev |-> StartOfClock,
                         before |-> h.rl, after |-> h.rl,
                         answer |-> canMakeRequestAnswer(h.rl), n |-> 0]
    /\ now = StartOfClock
    /\ ticks = 0
    /\ op = [p \in Procs |-> IdleOp]

LogCall(log, t) ==
    IF t \in DOMAIN log THEN [log EXCEPT ![t] = @ + 1] ELSE log @@ (t :> 1)

\* makeGeminiRequest up to its first await: the quota check, the record and
\* the issue of attempt 1 of makeStreamingRequest, or the 'Rate limit
\* exceeded' throw.
MakeGeminiRequest(p) ==
    /\ op[p].pc = "idle"
    /\ lastEval.n < MaxCalls
    /\ LET rolled == canMakeRequestRoll(rl, now)
           ok     == canMakeRequestAnswer(rolled)
       IN  /\ lastEval' = [t |-> now, prev |-> lastEval.t, before |-> rl,
                           after |-> rolled, answer |-> ok, n |-> lastEval.n + 1]
           /\ windowStarts' = windowStarts \cup {rolled.lastReset}
           /\ IF ok
              THEN /\ rl' = recordRequest(rolled)
                   /\ callLog' = LogCall(callLog, now)
                   /\ op' = [op EXCEPT ![p] = [@ EXCEPT !.pc = "streaming",
                                 !.attempt = 1, !.units = 1, !.attempts = 1]]
              ELSE /\ rl' = rolled
                   /\ callLog' = callLog
                   /\ op' = [op EXCEPT ![p] = [@ EXCEPT !.pc = "rejected",
                                 !.attempt = 0, !.units = 0, !.attempts = 0]]
    /\ UNCHANGED <<now, ticks, rq, sp, opsVars, flowVars>>

\* the awaited stream of the current attempt ends: makeStreamingRequest returns
AttemptSucceeds(p) ==
    /\ op[p].pc = "streaming"
    /\ op' = [op EXCEPT ![p].pc = "returned"]
    /\ UNCHANGED <<rl, now, ticks, callLog, windowStarts, lastEval, rq, sp, opsVars, flowVars>>

\* the current attempt throws: back off, or give up after maxRetries attempts
AttemptFails(p) ==
    /\ op[p].pc = "streaming"
    /\ op' = [op EXCEPT ![p].pc =
                 IF op[p].attempt < maxRetriesDefault THEN "backoff" ELSE "exhausted"]
    /\ UNCHANGED <<rl, now, ticks, callLog, windowStarts, lastEval, rq, sp, opsVars, flowVars>>

\* the backoff timer fires: the next attempt is issued
BackoffElapsed(p) ==
    /\ op[p].pc = "backoff"
    /\ op' = [op EXCEPT ![p] = [@ EXCEPT !.pc = "streaming",
                  !.attempt = @ + 1, !.attempts = @ + 1]]
    /\ UNCHANGED <<rl, now, ticks, callLog, windowStarts, lastEval, rq, sp, opsVars, flowVars>>

\* the operation returns to its caller (parsed text, or its fallback)
OperationEnds(p) ==
    /\ op[p].pc \in {"returned", "exhausted", "rejected"}
    /\ op' = [op EXCEPT ![p] = IdleOp]
    /\ UNCHANGED <<rl, now, ticks, callLog, windowStarts, lastEval, rq, sp, opsVars, flowVars>>

Tick(step) ==
    /\ ticks < MaxTicks
    /\ now' = now + step
    /\ ticks' = ticks + 1
    /\ UNCHANGED <<rl, callLog, windowStarts, lastEval, op, rq, sp, opsVars, flowVars>>

\* the variables of the other specifications, parked
RetryIdle == rq = [pc |-> "unused"]
SearchIdle == sp = [pc |-> "unused"]
OpsIdle == call = [pc |-> "unused"] /\ wf = [pc |-> "unused"]
FlowIdle ==
    /\ user = [searchCount |-> 0, searchLimitResetsAt |-> 0]
    /\ fnow = 0
    /\ searches = {}
    /\ req = << >>
    /\ audit = << >>

InitQuota == InitQuotaState /\ RetryIdle /\ SearchIdle /\ FlowIdle /\ OpsIdle

NextQuota ==
    \/ \E p \in Procs : MakeGeminiRequest(p)
    \/ \E p \in Procs : AttemptSucceeds(p)
    \/ \E p \in Procs : AttemptFails(p)
    \/ \E p \in Procs : BackoffElapsed(p)
    \/ \E p \in Procs : OperationEnds(p)
    \/ \E step \in ClockSteps : Tick(step)

SpecQuota == InitQuota /\ [][NextQuota]_vars

(***************************************************************************)
(* Properties of the RateLimiter (SpecQuota)                               *)
(***************************************************************************)
MinOfSet(S) == CHOOSE x \in S : \A y \in S : x <= y

CallsInWindow(w) ==
    SumOver(callLog, {t \in DOMAIN callLog : w <= t /\ t < w + WindowSeconds})

CallsOnDay(d) ==
    SumOver(callLog, {t \in DOMAIN callLog : DayIndex(t) = d})

\* C1: under every interleaving of callers, each recorded call falls in a
\* minute window of the limiter, no minute window holds more than
\* requestsPerMinute recorded calls and no calendar day more than
\* requestsPerDay.
C1_QuotaNeverExceeded ==
    /\ rl.requests <= requestsPerMinute
    /\ rl.dailyRequests <= requestsPerDay
    /\ \A t \in DOMAIN callLog :
          \E w \in windowStarts : w <= t /\ t < w + WindowSeconds
    /\ \A w \in windowStarts : CallsInWindow(w) <= requestsPerMinute
    /\ \A d \in {DayIndex(t) : t \in DOMAIN callLog} : CallsOnDay(d) <= requestsPerDay

\* one caller took the last unit of the minute and is still awaiting its
\* stream while the other caller was turned away
C1_Witness ==
    \E p, q \in Procs :
        /\ p # q
        /\ op[p].pc = "streaming" /\ op[p].units = 1
        /\ op[q].pc = "rejected"
        /\ rl.requests = requestsPerMinute
        /\ CallsInWindow(rl.lastReset) = requestsPerMinute

\* C6: when at least 60 s have passed since the first call recorded in the
\* current minute window, canMakeRequest() answers what it would answer with
\* the minute counter at 0, which is whether the day counter, once rolled,
\* is below requestsPerDay.
C6_MinuteWindowElapsed ==
    LET calls == {t \in DOMAIN callLog : t >= rl.lastReset}
    IN  (calls # {} /\ now - MinOfSet(calls) >= WindowSeconds) =>
            /\ canMakeRequest(rl, now) = canMakeRequest([rl EXCEPT !.requests = 0], now)
            /\ canMakeRequest(rl, now) =
                   (canMakeRequestRoll(rl, now).dailyRequests < requestsPerDay)

\* canMakeRequest() was evaluated on a full minute window 60 s or more after
\* the window's first call, and answered true
C6_Witness ==
    /\ lastEval.n > 0
    /\ lastEval.before.requests = requestsPerMinute
    /\ lastEval.t - lastEval.before.lastReset >= WindowSeconds
    /\ lastEval.before.lastReset \in DOMAIN callLog
    /\ lastEval.answer

\* C7: whenever two successive canMakeRequest() evaluations fall on different
\* calendar days, the later one resets the day counter to 0, and an
\* evaluation on the same calendar day as the one before leaves it alone.
C7_DayResetOnEveryCrossing ==
    lastEval.n > 0 =>
        IF DayIndex(lastEval.prev) # DayIndex(lastEval.t)
        THEN lastEval.after.dailyRequests = 0
        ELSE lastEval.after.dailyRequests = lastEval.before.dailyRequests

\* C30: at every instant getRemainingRequests() reports no negative value,
\* and it reports perMinute > 0 and perDay > 0 exactly when canMakeRequest(),
\* evaluated at that instant, would return true.
C30_RemainingAgreesWithCanCall ==
    LET remaining == getRemainingRequests(rl)
    IN  /\ remaining.perMinute >= 0
        /\ remaining.perDay >= 0
        /\ (remaining.perMinute > 0 /\ remaining.perDay > 0) <=> canMakeRequest(rl, now)

(***************************************************************************)
(* SpecRetry: one call of makeStreamingRequest.  The upstream decides, at  *)
(* every await, what happens next: generateContentStream() resolves or     *)
(* rejects, the stream yields a chunk, ends, or throws.  A text is a       *)
(* sequence of characters; a chunk carries a fragment (possibly no text).  *)
(***************************************************************************)
MaxRetriesArg == 4   \* largest maxRetries argument tried (the default is 3)
MaxChunks == 2       \* chunks one stream yields at most

Fragments == {<< >>, <<"a">>, <<"b">>}
UpstreamErrors == {"e1", "e2"}
None == [none |-> TRUE]

RECURSIVE Pow2(_)
Pow2(n) == IF n = 0 THEN 1 ELSE 2 * Pow2(n - 1)

\* a mutated exponent: 2^attempt
BackoffDelayDoubled(attempt) == retryDelay * Pow2(attempt)

\* GEMINI_CONFIG.retryDelay * Math.pow(2, attempt - 1)
BackoffDelay(attempt) == retryDelay * Pow2(attempt - 1)

\* a mutated guard: the loop sleeps after its last attempt too
SleepsAfterAlways(attempt, maxRetries) == attempt <= maxRetries

\* if (attempt < maxRetries): sleep before the next attempt
SleepsAfter(attempt, maxRetries) == attempt < maxRetries

\* a faulty variant that lets the loop run one attempt more
LoopConditionOneMore(attempt, maxRetries) == attempt <= maxRetries + 1

\* for (...; attempt <= maxRetries; attempt++)
LoopCondition(attempt, maxRetries) == attempt <= maxRetries

\* if (chunk.text) fullText += chunk.text
AppendChunk(fullText, fragment) ==
    IF fragment # << >> THEN fullText \o fragment ELSE fullText

InitRetryState ==
    \E m \in 1..MaxRetriesArg :
        rq = [pc |-> "requesting", maxRetries |-> m, attempt |-> 1,
              fullText |-> << >>, lastError |-> "undefined",
              delay |-> 0, result |-> None, thrown |-> None,
              \* ghost: what the upstream and the timers did
              attempts |-> 1, waited |-> 0, sleeps |-> 0,
              sent |-> << >>, failures |-> << >>,
              \* ghost: the latest attempt whose stream threw, and the text
              \* that attempt had accumulated
              chunkFailure |-> None]

\* a faulty variant: fullText is declared outside the loop and survives
\* a failed attempt
StartStreamKeepsText(r) == [r EXCEPT !.pc = "streaming"]

\* let fullText = '' inside the try block: every attempt starts empty
StartStream(r) == [r EXCEPT !.pc = "streaming", !.fullText = << >>]

\* await ai.models.generateContentStream(...) resolves; let fullText = ''
RequestResolves ==
    /\ rq.pc = "requesting"
    /\ rq' = StartStream(rq)
    /\ UNCHANGED <<quotaVars, sp, opsVars, flowVars>>

\* the catch block and what follows it: remember the error, then sleep, or
\* leave the loop and throw
Caught(r, e) ==
    LET r1 == [r EXCEPT !.lastError = e, !.failures = Append(@, e)]
    IN  IF SleepsAfter(r.attempt, r.maxRetries)
        THEN [r1 EXCEPT !.pc = "sleeping", !.delay = BackoffDelay(r.attempt)]
        ELSE IF LoopCondition(r.attempt + 1, r.maxRetries)
             THEN [r1 EXCEPT !.pc = "requesting", !.attempt = @ + 1,
                             !.attempts = @ + 1, !.sent = << >>]
             ELSE [r1 EXCEPT !.pc = "thrown",
                             !.thrown = [attempts |-> r.maxRetries, cause |-> e]]

\* await generateContentStream(...) rejects
RequestRejects(e) ==
    /\ rq.pc = "requesting"
    /\ rq' = Caught(rq, e)
    /\ UNCHANGED <<quotaVars, sp, opsVars, flowVars>>

\* for await (const chunk of response): one more chunk
ChunkArrives(f) ==
    /\ rq.pc = "streaming"
    /\ Len(rq.sent) < MaxChunks
    /\ rq' = [rq EXCEPT !.fullText = AppendChunk(@, f), !.sent = Append(@, f)]
    /\ UNCHANGED <<quotaVars, sp, opsVars, flowVars>>

\* the stream throws while it is read
StreamThrows(e) ==
    /\ rq.pc = "streaming"
    /\ rq' = [Caught(rq, e) EXCEPT
                 !.chunkFailure = [attempt |-> rq.attempt, text |-> rq.fullText]]
    /\ UNCHANGED <<quotaVars, sp, opsVars, flowVars>>

\* the stream ends: return fullText
StreamEnds ==
    /\ rq.pc = "streaming"
    /\ rq' = [rq EXCEPT !.pc = "returned", !.result = rq.fullText]
    /\ UNCHANGED <<quotaVars, sp, opsVars, flowVars>>

\* the setTimeout of the backoff fires: next iteration of the loop
TimerFires ==
    /\ rq.pc = "sleeping"
    /\ rq' = IF LoopCondition(rq.attempt + 1, rq.maxRetries)
             THEN [rq EXCEPT !.pc = "requesting", !.attempt = @ + 1,
                             !.attempts = @ + 1, !.sent = << >>,
                             !.waited = @ + rq.delay, !.sleeps = @ + 1]
             ELSE [rq EXCEPT !.pc = "thrown",
                             !.waited = @ + rq.delay, !.sleeps = @ + 1,
                             !.thrown = [attempts |-> rq.maxRetries,
                                         cause |-> rq.lastError]]
    /\ UNCHANGED <<quotaVars, sp, opsVars, flowVars>>

InitRetry == QuotaIdle /\ InitRetryState /\ SearchIdle /\ FlowIdle /\ OpsIdle

NextRetry ==
    \/ RequestResolves
    \/ \E e \in UpstreamErrors : RequestRejects(e)
    \/ \E f \in Fragments : ChunkArrives(f)
    \/ \E e \in UpstreamErrors : StreamThrows(e)
    \/ StreamEnds
    \/ TimerFires

SpecRetry == InitRetry /\ [][NextRetry]_vars

\* every awaited promise settles: the request resolves or rejects, the
\* stream yields, ends or throws, the timer fires
SpecRetryLive == SpecRetry /\ WF_vars(NextRetry)

(***************************************************************************)
(* Properties of makeStreamingRequest (SpecRetry)                          *)
(***************************************************************************)
RECURSIVE Flatten(_)
\* the fragments of a stream, concatenated in arrival order
Flatten(frags) ==
    IF frags = << >> THEN << >> ELSE Head(frags) \o Flatten(Tail(frags))

RECURSIVE SumOfDelays(_)
\* the sum over i in 1..n of retryDelay * 2^(i-1), written out
SumOfDelays(n) ==
    IF n = 0 THEN 0
    ELSE SumOfDelays(n - 1) + (CASE n = 1 -> 1000 [] n = 2 -> 2000 [] n = 3 -> 4000
                                 [] n = 4 -> 8000 [] OTHER -> 16000)

\* C4: when the first k-1 attempts fail and attempt k <= maxRetries succeeds,
\* the call returns the text streamed in attempt k, has made exactly k
\* attempts and has slept 1000 + 2000 + ... (k-1 delays) ms in between.
C4_SucceedsOnAttemptK ==
    rq.pc = "returned" =>
        LET k == Len(rq.failures) + 1
        IN  /\ k <= rq.maxRetries
            /\ rq.attempts = k
            /\ rq.result = Flatten(rq.sent)
            /\ rq.sleeps = k - 1
            /\ rq.waited = SumOfDelays(k - 1)

\* two attempts failed, the second after streaming text, and the third
\* returned a text of two fragments
C4_Witness ==
    /\ rq.pc = "returned"
    /\ rq.maxRetries = maxRetriesDefault
    /\ Len(rq.failures) = 2
    /\ rq.result = <<"a", "b">>
    /\ rq.waited = 3000

\* C5: when every attempt fails, the call throws after exactly maxRetries
\* attempts, has slept only between attempts (maxRetries - 1 delays, none
\* after the last failure), and the error carries maxRetries and the error
\* of the last attempt.
C5_ExhaustsAfterMaxRetries ==
    rq.pc = "thrown" =>
        /\ rq.attempts = rq.maxRetries
        /\ Len(rq.failures) = rq.maxRetries
        /\ rq.sleeps = rq.maxRetries - 1
        /\ rq.waited = SumOfDelays(rq.maxRetries - 1)
        /\ rq.thrown = [attempts |-> rq.maxRetries,
                        cause |-> rq.failures[rq.maxRetries]]

\* three attempts failed with e1, e1, e2 and the call threw, wrapping e2
C5_Witness ==
    /\ rq.pc = "thrown"
    /\ rq.maxRetries = maxRetriesDefault
    /\ rq.failures = <<"e1", "e1", "e2">>
    /\ rq.thrown.cause = "e2"
    /\ rq.waited = 3000

\* C21: an error thrown while the chunks of a stream are read ends only that
\* attempt: the loop goes on to the next attempt while one is left (it
\* throws only after attempt maxRetries), the text of the failed attempt is
\* dropped, and a returned string is the concatenation, in arrival order, of
\* the fragments of the one attempt that succeeded.
C21_ChunkErrorKeepsLoop ==
    rq.chunkFailure # None =>
        /\ rq.chunkFailure.attempt < rq.maxRetries =>
               \/ rq.pc = "sleeping" /\ rq.attempt = rq.chunkFailure.attempt
               \/ rq.attempt > rq.chunkFailure.attempt
        /\ rq.pc = "thrown" => rq.attempts = rq.maxRetries
        /\ rq.pc = "returned" =>
               /\ rq.attempt > rq.chunkFailure.attempt
               /\ rq.result = Flatten(rq.sent)

\* the stream of attempt 1 threw after "a" had been accumulated, and
\* attempt 2 returned "b" alone
C21_Witness ==
    /\ rq.pc = "returned"
    /\ rq.chunkFailure = [attempt |-> 1, text |-> <<"a">>]
    /\ rq.attempts = 2
    /\ rq.result = <<"b">>

\* C27: a call of makeStreamingRequest never issues more than maxRetries
\* upstream attempts, and, every attempt and timer settling in the end, it
\* ends: it returns a text or throws.
C27_RetryLoopTerminates ==
    /\ [](rq.attempts <= rq.maxRetries /\ Len(rq.failures) <= rq.maxRetries)
    /\ <>(rq.pc \in {"returned", "thrown"})
    /\ [](rq.pc \in {"returned", "thrown"} => [](rq.pc \in {"returned", "thrown"}))

\* a call with maxRetries = 4 has issued its fourth attempt after three
\* failures and is waiting for it
C27_Witness ==
    /\ rq.maxRetries = MaxRetriesArg
    /\ rq.attempts = rq.maxRetries
    /\ rq.pc = "streaming"
    /\ Len(rq.failures) = rq.maxRetries - 1

(***************************************************************************)
(* ResponseParser as the service applies it.  A response text is a         *)
(* sequence of tokens: the brackets and the comma of JSON, three JSON      *)
(* values ("o" a product object with a url, "u" a product object without   *)
(* one, "n" the literal null) and "x", text that is not JSON.  A parsed    *)
(* value is a record tagged arr, obj or null.                              *)
(***************************************************************************)
Tokens == {"[", "]", ",", "o", "u", "n", "x"}
MaxTextLen == 4      \* tokens in a response text

RECURSIVE TextsUpTo(_)
TextsUpTo(n) ==
    IF n = 0 THEN {<< >>}
    ELSE LET shorter == TextsUpTo(n - 1)
         IN  shorter \cup {Append(t, k) : t \in {u \in shorter : Len(u) = n - 1}, k \in Tokens}

Texts == TextsUpTo(MaxTextLen)

AbsentUrl == [site |-> "none", q |-> ""]
ListedUrl == [site |-> "listing", q |-> ""]
NullValue == [t |-> "null"]
ProductWithUrl == [t |-> "obj", platform |-> "amazon", price |-> 1599, url |-> ListedUrl]
ProductNoUrl   == [t |-> "obj", platform |-> "flipkart", price |-> 1299, url |-> AbsentUrl]
ArrayValue(items) == [t |-> "arr", items |-> items]
ParseFailure == [ok |-> FALSE]

RECURSIVE ParseValue(_), ParseItems(_, _)
\* JSON.parse, one value off the front of toks: [ok, val, rest]
ParseValue(toks) ==
    IF toks = << >> THEN ParseFailure
    ELSE CASE Head(toks) = "o" -> [ok |-> TRUE, val |-> ProductWithUrl, rest |-> Tail(toks)]
           [] Head(toks) = "u" -> [ok |-> TRUE, val |-> ProductNoUrl, rest |-> Tail(toks)]
           [] Head(toks) = "n" -> [ok |-> TRUE, val |-> NullValue, rest |-> Tail(toks)]
           [] Head(toks) = "[" ->
                IF Len(toks) >= 2 /\ toks[2] = "]"
                THEN [ok |-> TRUE, val |-> ArrayValue(<< >>), rest |-> Tail(Tail(toks))]
                ELSE ParseItems(Tail(toks), << >>)
           [] OTHER -> ParseFailure

\* the elements of a non-empty array after its "[": value ("," value)* "]"
ParseItems(toks, acc) ==
    LET v == ParseValue(toks)
    IN  IF ~v.ok \/ v.rest = << >> THEN ParseFailure
        ELSE CASE Head(v.rest) = "]" ->
                    [ok |-> TRUE, val |-> ArrayValue(Append(acc, v.val)), rest |-> Tail(v.rest)]
               [] Head(v.rest) = "," -> ParseItems(Tail(v.rest), Append(acc, v.val))
               [] OTHER -> ParseFailure

\* JSON.parse(text): the whole text must be one value
JsonParse(toks) ==
    LET v == ParseValue(toks)
    IN  IF v.ok /\ v.rest = << >> THEN v ELSE ParseFailure

NoMatch == << >>

\* a faulty variant with a lazy quantifier: from the first "[" to the first
\* "]" after it
MatchArraySpanLazy(text) ==
    LET opens  == {i \in 1..Len(text) : text[i] = "["}
    IN  IF opens = {} THEN NoMatch
        ELSE LET first  == MinOfSet(opens)
                 closes == {j \in (first + 1)..Len(text) : text[j] = "]"}
             IN  IF closes = {} THEN NoMatch
                 ELSE SubSeq(text, first, MinOfSet(closes))

\* text.match(/\[[\s\S]*\]/): from the first "[" to the last "]" after it,
\* or NoMatch
MatchArraySpan(text) ==
    LET opens  == {i \in 1..Len(text) : text[i] = "["}
    IN  IF opens = {} THEN NoMatch
        ELSE LET first  == MinOfSet(opens)
                 closes == {j \in (first + 1)..Len(text) : text[j] = "]"}
             IN  IF closes = {} THEN NoMatch
                 ELSE SubSeq(text, first, CHOOSE j \in closes : \A k \in closes : k <= j)

(***************************************************************************)
(* ProductIntelligenceService.searchProductsAcrossPlatforms                *)
(***************************************************************************)
Queries == {"mouse"}

generatePlatformUrl(platform, query) ==
    IF platform \in {"amazon", "flipkart", "myntra", "meesho"}
    THEN [site |-> platform, q |-> query]
    ELSE [site |-> "google", q |-> query]

getFallbackResults(query) ==
    << [t |-> "obj", title |-> <<query, "Product Not Found">>, price |-> 0,
        availability |-> "out_of_stock", platform |-> "unknown",
        url |-> [site |-> "#", q |-> ""]] >>

\* the callback of products.map: null has no property url (TypeError); any
\* other value spreads into an object whose url is kept or generated
MapThrows(v) == v.t = "null"
MapProduct(v, query) ==
    CASE v.t = "obj" ->
           [v EXCEPT !.url = IF v.url # AbsentUrl THEN v.url
                              ELSE generatePlatformUrl(v.platform, query)]
      [] OTHER ->
           [t |-> "obj", spread |-> v.items, url |-> generatePlatformUrl("undefined", query)]

\* a faulty variant that hands the parsed array back whatever it holds, and the
\* empty list when the text holds no array
searchFromTextNoFallback(text, query) ==
    LET span == MatchArraySpan(text)
        parsed == JsonParse(span)
    IN  IF span = NoMatch \/ ~parsed.ok THEN << >>
        ELSE [i \in 1..Len(parsed.val.items) |-> parsed.val.items[i]]

\* the try block once makeGeminiRequest has returned text, with its catch
searchFromText(text, query) ==
    LET span == MatchArraySpan(text)
        parsed == JsonParse(span)
    IN  IF span = NoMatch THEN getFallbackResults(query)
        ELSE IF ~parsed.ok THEN getFallbackResults(query)
        ELSE IF \E i \in 1..Len(parsed.val.items) : MapThrows(parsed.val.items[i])
             THEN getFallbackResults(query)
        ELSE [i \in 1..Len(parsed.val.items) |-> MapProduct(parsed.val.items[i], query)]

\* makeGeminiRequest threw (quota exhausted, or every attempt failed)
searchFromFailure(query) == getFallbackResults(query)

(***************************************************************************)
(* SpecSearch: one call of searchProductsAcrossPlatforms, for every        *)
(* outcome of makeGeminiRequest: it throws 'Rate limit exceeded', it       *)
(* throws after the last retry, or it returns a text.                      *)
(***************************************************************************)
InitSearchState ==
    \E q \in Queries :
        sp = [pc |-> "calling", query |-> q, cause |-> "pending",
              text |-> << >>, result |-> << >>]

SearchQuotaExceeded ==
    /\ sp.pc = "calling"
    /\ sp' = [sp EXCEPT !.pc = "done", !.cause = "quota",
                        !.result = searchFromFailure(sp.query)]
    /\ UNCHANGED <<quotaVars, rq, opsVars, flowVars>>

SearchRetriesExhausted ==
    /\ sp.pc = "calling"
    /\ sp' = [sp EXCEPT !.pc = "done", !.cause = "exhausted",
                        !.result = searchFromFailure(sp.query)]
    /\ UNCHANGED <<quotaVars, rq, opsVars, flowVars>>

SearchTextReturned(text) ==
    /\ sp.pc = "calling"
    /\ sp' = [sp EXCEPT !.pc = "done", !.cause = "text", !.text = text,
                        !.result = searchFromText(text, sp.query)]
    /\ UNCHANGED <<quotaVars, rq, opsVars, flowVars>>

InitSearch == QuotaIdle /\ RetryIdle /\ InitSearchState /\ FlowIdle /\ OpsIdle

NextSearch ==
    \/ SearchQuotaExceeded
    \/ SearchRetriesExhausted
    \/ \E text \in Texts : SearchTextReturned(text)

SpecSearch == InitSearch /\ [][NextSearch]_vars

(***************************************************************************)
(* SpecParse: the extraction step of searchProductsAcrossPlatforms (match, *)
(* then JSON.parse of the span) applied to texts built around the          *)
(* serialisation of a list.                                                *)
(***************************************************************************)
MaxListLen == 3      \* elements of a serialised list

\* the values a list may hold: objects, null, and lists
ListElements ==
    {ProductWithUrl, ProductNoUrl, NullValue, ArrayValue(<< >>), ArrayValue(<<ProductWithUrl>>)}

RECURSIVE ElementsUpTo(_)
ElementsUpTo(n) ==
    IF n = 0 THEN {<< >>}
    ELSE LET shorter == ElementsUpTo(n - 1)
         IN  shorter \cup {Append(l, v) : l \in {u \in shorter : Len(u) = n - 1},
                                          v \in ListElements}

WellFormedLists == {ArrayValue(l) : l \in ElementsUpTo(MaxListLen)}

RECURSIVE Stringify(_), StringifyItems(_)
\* JSON.stringify of a value, as tokens
Stringify(v) ==
    CASE v.t = "arr"  -> <<"[">> \o StringifyItems(v.items) \o <<"]">>
      [] v.t = "null" -> <<"n">>
      [] OTHER        -> IF v.url = AbsentUrl THEN <<"u">> ELSE <<"o">>

\* the elements of an array, separated by commas
StringifyItems(items) ==
    IF items = << >> THEN << >>
    ELSE IF Len(items) = 1 THEN Stringify(items[1])
    ELSE Stringify(Head(items)) \o <<",">> \o StringifyItems(Tail(items))

\* "noise [" + s + "] trailing", and "noise " + s + " trailing"
Bracketed(s) == <<"x", "[">> \o s \o <<"]", "x">>
Embedded(s)  == <<"x">> \o s \o <<"x">>

InitParseState ==
    \E X \in WellFormedLists, b \in BOOLEAN :
        sp = [pc |-> "built", X |-> X, bracketed |-> b,
              text |-> IF b THEN Bracketed(Stringify(X)) ELSE Embedded(Stringify(X)),
              extracted |-> None]

\* text.match(/\[[\s\S]*\]/), then JSON.parse(jsonMatch[0])
ExtractArray(text) ==
    LET span == MatchArraySpan(text)
    IN  IF span = NoMatch THEN ParseFailure ELSE JsonParse(span)

ExtractJsonArray ==
    /\ sp.pc = "built"
    /\ sp' = [sp EXCEPT !.pc = "extracted", !.extracted = ExtractArray(sp.text)]
    /\ UNCHANGED <<quotaVars, rq, opsVars, flowVars>>

InitParse == QuotaIdle /\ RetryIdle /\ InitParseState /\ FlowIdle /\ OpsIdle

NextParse == ExtractJsonArray

SpecParse == InitParse /\ [][NextParse]_vars

\* C24 as stated: the array extracted from "noise [" + stringify(X) +
\* "] trailing" is X.
C24_RoundTripBracketed ==
    (sp.pc = "extracted" /\ sp.bracketed) =>
        sp.extracted.ok /\ sp.extracted.val = sp.X

\* C24 as amended: the array extracted from "noise " + stringify(X) +
\* " trailing" is X (stringify(X) brings its own brackets); from
\* "noise [" + stringify(X) + "] trailing" it is the one-element list [X].
C24_RoundTripEmbedded ==
    sp.pc = "extracted" =>
        /\ sp.extracted.ok
        /\ sp.extracted.val = IF sp.bracketed THEN ArrayValue(<<sp.X>>) ELSE sp.X

\* the list [[], {...}] came back from "noise [[],{...}] trailing": the
\* span ran to the last "]", past the one that closes the inner list
C24_Witness ==
    /\ sp.pc = "extracted"
    /\ ~sp.bracketed
    /\ sp.X = ArrayValue(<<ArrayValue(<< >>), ProductNoUrl>>)
    /\ sp.text = <<"x", "[", "[", "]", ",", "u", "]", "x">>
    /\ sp.extracted.val = sp.X

(***************************************************************************)
(* Properties of searchProductsAcrossPlatforms (SpecSearch)                *)
(***************************************************************************)
EmptyArrayText == <<"[", "]">>

\* C2 as stated: whatever the upstream does, the returned list is not empty.
C2_NeverEmpty ==
    sp.pc = "done" => Len(sp.result) >= 1

\* C2 as amended: the returned list is empty exactly when the upstream
\* returned a text whose first-"[" to last-"]" span is the empty array; on
\* quota exhaustion, exhausted retries, a text without an array span and a
\* span that does not parse, it is the one-element placeholder.
C2_EmptyOnlyForEmptyArray ==
    sp.pc = "done" =>
        /\ (sp.result = << >>) <=>
               (sp.cause = "text" /\ MatchArraySpan(sp.text) = EmptyArrayText)
        /\ ( \/ sp.cause \in {"quota", "exhausted"}
             \/ MatchArraySpan(sp.text) = NoMatch
             \/ ~JsonParse(MatchArraySpan(sp.text)).ok )
           => /\ Len(sp.result) = 1
              /\ sp.result[1].price = 0
              /\ sp.result[1].availability = "out_of_stock"

\* the upstream returned an array span that does not parse and the caller
\* got the placeholder
C2_Witness ==
    /\ sp.pc = "done"
    /\ sp.cause = "text"
    /\ MatchArraySpan(sp.text) = <<"[", "o", ",", "]">>
    /\ Len(sp.result) = 1
    /\ sp.result[1].platform = "unknown"

(***************************************************************************)
(* SpecFlow: the requests of one user through searchAndAnalyze,            *)
(* PriceIntelligenceWorkflow.executeWorkflow and incrementUserSearchCount. *)
(* Every await (a Mongoose read or write, a ProductIntelligence call, the  *)
(* hand-over between two graph nodes) ends a step; between two awaits a    *)
(* request runs alone.  Instants are whole hours.  A request holds its own *)
(* copy of the User document from findById on, and save() writes the paths *)
(* the request has changed.                                                *)
(***************************************************************************)
Reqs == {"r1", "r2"}
FlowQueries == {"mouse", "lamp"}
MaxFlowTicks == 1    \* clock advances
MaxProducts == 2     \* listings a search returns at most
MaxLimitRounds == 2  \* counted searches and resets after which no further request is sent

\* createdAt: { $gte: new Date(Date.now() - 7*3600000) }
CacheHours == 7
\* nextWeek.setDate(nextWeek.getDate() + 7)
WeekHours == 7 * 24
\* user.searchCount >= 100
WorkflowSearchLimit == 100
\* const SEARCH_LIMIT = 3
SEARCH_LIMIT == 3

NoDate == 0 - 1      \* searchLimitResetsAt absent
FlowSteps == {1, CacheHours + 1, WeekHours + 1}
StageOrder == <<"checkUserLimits", "searchProducts", "analyzeMarket",
                "predictTrends", "generateRecommendations">>

NewReq == [pc |-> "new", query |-> "", doc |-> [searchCount |-> 0, searchLimitResetsAt |-> NoDate],
           dirty |-> {}, products |-> 0, stagesRun |-> << >>, failedStage |-> "",
           outcome |-> "pending", wfError |-> "null", wfResult |-> None,
           incs |-> 0, writes |-> {},
           \* checkSearchLimit: the document findById gave and when, what the
           \* reset's save() left in the collection, and the response
           seen |-> None, saved |-> None, res |-> None]

\* User documents a run of the program leaves behind: a new user; a user one
\* search below, and one at, the weekly ceiling, the window ending at hour 100
FlowUsers ==
    { [searchCount |-> 0, searchLimitResetsAt |-> NoDate],
      [searchCount |-> WorkflowSearchLimit - 1, searchLimitResetsAt |-> 100],
      [searchCount |-> WorkflowSearchLimit, searchLimitResetsAt |-> 100] }

InitFlowState ==
    /\ user \in FlowUsers
    /\ fnow = 0
    /\ searches = {}
    /\ req = [r \in Reqs |-> NewReq]
    /\ audit = [count0 |-> user.searchCount, completed |-> 0, resets |-> 0,
                inWindow |-> user.searchCount, ticks |-> 0]

\* user.save(): the paths this request changed are written, the others kept
SaveDoc(stored, doc, dirty) ==
    [f \in DOMAIN stored |-> IF f \in dirty THEN doc[f] ELSE stored[f]]

\* assigning a path marks it modified when the value differs
Assign(q, f, v) ==
    IF q.doc[f] = v THEN q
    ELSE [q EXCEPT !.doc = [@ EXCEPT ![f] = v], !.dirty = @ \cup {f}]

\* a faulty variant in which the caller counts the search although the workflow threw
workflowThrewStillCounts(q, stage) ==
    [q EXCEPT !.pc = "incRead", !.failedStage = stage, !.incs = @ + 1]

\* executeWorkflow's catch rethrows 'Workflow failed: ...'; searchAndAnalyze
\* has no handler, so the request ends with the exception.  No node writes
\* state.error and no WorkflowResult is returned.
workflowThrew(q, stage) ==
    [q EXCEPT !.pc = "done", !.outcome = "threw", !.failedStage = stage]

\* a faulty variant in which the node entered is invoked twice
EnterStageTwice(q, stage) ==
    [q EXCEPT !.pc = stage, !.stagesRun = Append(Append(@, stage), stage)]

\* a node is entered
EnterStage(q, stage) ==
    [q EXCEPT !.pc = stage, !.stagesRun = Append(@, stage)]

\* a faulty variant in which a cache hit is counted as a search of the user
CacheLookupCounted(r, query) ==
    /\ req[r].pc = "new"
    /\ LET hit == \E s \in searches : s.query = query /\ s.createdAt >= fnow - CacheHours
       IN  /\ req' = [req EXCEPT ![r] =
                IF hit THEN [@ EXCEPT !.pc = "done", !.query = query, !.outcome = "cached"]
                ELSE EnterStage([@ EXCEPT !.query = query], "checkUserLimits")]
           /\ user' = IF hit THEN [user EXCEPT !.searchCount = @ + 1] ELSE user
    /\ UNCHANGED <<quotaVars, rq, sp, opsVars, fnow, searches, audit>>

\* searchAndAnalyze: ProductSearch.findOne resolves; on a hit the cached
\* record is returned, otherwise executeWorkflow invokes the graph, whose
\* first node awaits User.findById
CacheLookup(r, query) ==
    /\ req[r].pc = "new"
    /\ LET hit == \E s \in searches : s.query = query /\ s.createdAt >= fnow - CacheHours
       IN  req' = [req EXCEPT ![r] =
                IF hit THEN [@ EXCEPT !.pc = "done", !.query = query, !.outcome = "cached"]
                ELSE EnterStage([@ EXCEPT !.query = query], "checkUserLimits")]
    /\ UNCHANGED <<quotaVars, rq, sp, opsVars, user, fnow, searches, audit>>

\* the limit test and what follows it in checkUserLimitsNode
GateDecide(q) ==
    IF q.doc.searchCount # 0 /\ q.doc.searchCount >= WorkflowSearchLimit
    THEN workflowThrew(q, "checkUserLimits")
    ELSE EnterStage(q, "searchProducts")

\* checkUserLimitsNode: User.findById resolves; a lapsed window is reset on
\* the copy and save() awaited, otherwise the limit is tested at once
GateRead(r) ==
    /\ req[r].pc = "checkUserLimits"
    /\ LET q0 == [req[r] EXCEPT !.doc = user, !.dirty = {}]
       IN  IF user.searchLimitResetsAt # NoDate /\ fnow > user.searchLimitResetsAt
           THEN req' = [req EXCEPT ![r] =
                    [Assign(Assign(q0, "searchCount", 0),
                            "searchLimitResetsAt", fnow + WeekHours)
                        EXCEPT !.pc = "gateSave"]]
           ELSE req' = [req EXCEPT ![r] = GateDecide(q0)]
    /\ UNCHANGED <<quotaVars, rq, sp, opsVars, user, fnow, searches, audit>>

\* checkUserLimitsNode: the save() of the reset is applied and resolves
GateSave(r) ==
    /\ req[r].pc = "gateSave"
    /\ user' = SaveDoc(user, req[r].doc, req[r].dirty)
    /\ audit' = [audit EXCEPT !.resets = @ + 1, !.inWindow = 0]
    /\ req' = [req EXCEPT ![r] = GateDecide([@ EXCEPT !.writes = @ \cup {"reset"}])]
    /\ UNCHANGED <<quotaVars, rq, sp, opsVars, fnow, searches>>

\* checkUserLimitsNode: User.findById or save() rejects
GateRaises(r) ==
    /\ req[r].pc \in {"checkUserLimits", "gateSave"}
    /\ req' = [req EXCEPT ![r] = workflowThrew(@, "checkUserLimits")]
    /\ UNCHANGED <<quotaVars, rq, sp, opsVars, user, fnow, searches, audit>>

\* searchProductsNode: searchProductsAcrossPlatforms resolves with n listings
SearchReturns(r, n) ==
    /\ req[r].pc = "searchProducts"
    /\ req' = [req EXCEPT ![r] =
            IF n = 0 THEN workflowThrew(@, "searchProducts")
            ELSE EnterStage([@ EXCEPT !.products = n], "analyzeMarket")]
    /\ UNCHANGED <<quotaVars, rq, sp, opsVars, user, fnow, searches, audit>>

\* analyzeMarketNode: analyzeMarket resolves (it rejects on no listings only)
AnalyzeReturns(r) ==
    /\ req[r].pc = "analyzeMarket"
    /\ req' = [req EXCEPT ![r] =
            IF req[r].products = 0 THEN workflowThrew(@, "analyzeMarket")
            ELSE EnterStage(@, "predictTrends")]
    /\ UNCHANGED <<quotaVars, rq, sp, opsVars, user, fnow, searches, audit>>

\* predictTrendsNode: predictPriceTrends resolves
PredictReturns(r) ==
    /\ req[r].pc = "predictTrends"
    /\ req' = [req EXCEPT ![r] = EnterStage(@, "generateRecommendations")]
    /\ UNCHANGED <<quotaVars, rq, sp, opsVars, user, fnow, searches, audit>>

\* generateRecommendationsNode returns and the graph ends: executeWorkflow
\* returns the result, searchAndAnalyze builds the ProductSearch and awaits
\* its save()
RecommendReturns(r) ==
    /\ req[r].pc = "generateRecommendations"
    /\ req' = [req EXCEPT ![r] = [@ EXCEPT !.pc = "saveSearch",
                   !.wfResult = [error |-> req[r].wfError]]]
    /\ UNCHANGED <<quotaVars, rq, sp, opsVars, user, fnow, searches, audit>>

\* generateRecommendationsNode: createRecommendation reads bestDeal.price of
\* an analysis the upstream sent without bestDeal (TypeError)
RecommendRaises(r) ==
    /\ req[r].pc = "generateRecommendations"
    /\ req' = [req EXCEPT ![r] = workflowThrew(@, "generateRecommendations")]
    /\ UNCHANGED <<quotaVars, rq, sp, opsVars, user, fnow, searches, audit>>

\* productSearch.save() resolves; incrementUserSearchCount awaits findById
SaveSearch(r) ==
    /\ req[r].pc = "saveSearch"
    /\ searches' = searches \cup {[query |-> req[r].query, createdAt |-> fnow]}
    /\ req' = [req EXCEPT ![r] = [@ EXCEPT !.pc = "incRead", !.incs = @ + 1]]
    /\ UNCHANGED <<quotaVars, rq, sp, opsVars, user, fnow, audit>>

\* building the results throws (workflowResult.scrapedData is the Map of the
\* WorkflowResult in src/unnamed/part_002; the WorkflowResult of
\* langchain.workflow.ts has none) or productSearch.save() rejects: the
\* request ends with the exception, before incrementUserSearchCount
SaveSearchRaises(r) ==
    /\ req[r].pc = "saveSearch"
    /\ req' = [req EXCEPT ![r] = [@ EXCEPT !.pc = "done", !.outcome = "threw"]]
    /\ UNCHANGED <<quotaVars, rq, sp, opsVars, user, fnow, searches, audit>>

\* User.findById(userId) found no document
NoUser == [t |-> "null"]

\* a faulty variant that starts a window on every counted search
incrementOnCopyAlwaysDated(q, t) ==
    LET q1 == Assign(q, "searchLimitResetsAt", t + WeekHours)
    IN  Assign(q1, "searchCount", q1.doc.searchCount + 1)

\* incrementUserSearchCount between findById and save(): the window starts
\* when the count read is 0, and the count goes up by one
incrementOnCopy(q, t) ==
    LET q1 == IF q.doc.searchCount = 0
              THEN Assign(q, "searchLimitResetsAt", t + WeekHours)
              ELSE q
    IN  Assign(q1, "searchCount", q1.doc.searchCount + 1)

\* incrementUserSearchCount: findById resolves; the count is raised on the
\* copy (and the window opened when it was 0) and save() awaited
IncRead(r) ==
    /\ req[r].pc = "incRead"
    /\ IF user = NoUser
       THEN req' = [req EXCEPT ![r] = [@ EXCEPT !.pc = "done", !.outcome = "noUser"]]
       ELSE req' = [req EXCEPT ![r] =
                [incrementOnCopy([req[r] EXCEPT !.doc = user, !.dirty = {}], fnow)
                    EXCEPT !.pc = "incSave"]]
    /\ UNCHANGED <<quotaVars, rq, sp, opsVars, user, fnow, searches, audit>>

\* incrementUserSearchCount: save() is applied and resolves; searchAndAnalyze
\* returns the fresh result
IncSave(r) ==
    /\ req[r].pc = "incSave"
    /\ user' = SaveDoc(user, req[r].doc, req[r].dirty)
    /\ audit' = [audit EXCEPT !.completed = @ + 1, !.inWindow = @ + 1]
    /\ req' = [req EXCEPT ![r] = [@ EXCEPT !.pc = "done", !.outcome = "completed",
                   !.writes = @ \cup {"increment"}]]
    /\ UNCHANGED <<quotaVars, rq, sp, opsVars, fnow, searches>>

FlowTick(step) ==
    /\ audit.ticks < MaxFlowTicks
    /\ fnow' = fnow + step
    /\ audit' = [audit EXCEPT !.ticks = @ + 1]
    /\ UNCHANGED <<quotaVars, rq, sp, opsVars, user, searches, req>>

InitFlow == QuotaIdle /\ RetryIdle /\ SearchIdle /\ InitFlowState /\ OpsIdle

NextFlow ==
    \/ \E r \in Reqs, query \in FlowQueries : CacheLookup(r, query)
    \/ \E r \in Reqs : GateRead(r)
    \/ \E r \in Reqs : GateSave(r)
    \/ \E r \in Reqs : GateRaises(r)
    \/ \E r \in Reqs, n \in 0..MaxProducts : SearchReturns(r, n)
    \/ \E r \in Reqs : AnalyzeReturns(r)
    \/ \E r \in Reqs : PredictReturns(r)
    \/ \E r \in Reqs : RecommendReturns(r)
    \/ \E r \in Reqs : RecommendRaises(r)
    \/ \E r \in Reqs : SaveSearch(r)
    \/ \E r \in Reqs : SaveSearchRaises(r)
    \/ \E r \in Reqs : IncRead(r)
    \/ \E r \in Reqs : IncSave(r)
    \/ \E step \in FlowSteps : FlowTick(step)

SpecFlow == InitFlow /\ [][NextFlow]_vars

Spec == SpecFlow

(***************************************************************************)
(* Properties of the workflow and the per-user quota (SpecFlow)            *)
(***************************************************************************)
Range(f) == {f[i] : i \in DOMAIN f}

\* C3: when SearchProducts yields no listing, AnalyzeMarket (and every later
\* stage) is never invoked and the caller is handed a result whose error
\* field is set.
C3_EmptySearchSetsError ==
    \A r \in Reqs :
        req[r].failedStage = "searchProducts" =>
            /\ Range(req[r].stagesRun) = {"checkUserLimits", "searchProducts"}
            /\ req[r].wfResult # None
            /\ req[r].wfResult.error # "null"

\* C8: the searches completed in one quota window by requests that passed
\* the workflow gate never number more than the gate's ceiling.
C8_UserCeilingNeverOverrun ==
    audit.inWindow <= WorkflowSearchLimit

\* C9: with no reset in between, the persisted searchCount has grown by
\* exactly the number of searches completed.
C9_NoLostUpdate ==
    audit.resets = 0 => user.searchCount = audit.count0 + audit.completed

\* C10: a request calls incrementUserSearchCount at most once, only after
\* the five stages ran in order without a failure, and exactly once when it
\* completes; a request whose workflow aborted never calls it and has
\* written nothing to the user document but the lazy reset of the gate.
C10_AbortDoesNotIncrement ==
    \A r \in Reqs :
        /\ req[r].incs <= 1
        /\ req[r].incs = 1 =>
              /\ req[r].stagesRun = StageOrder
              /\ req[r].failedStage = ""
              /\ req[r].wfResult # None
        /\ req[r].failedStage # "" =>
              /\ req[r].incs = 0
              /\ req[r].writes \subseteq {"reset"}
              /\ req[r].pc = "done" /\ req[r].outcome = "threw"
        /\ req[r].outcome = "completed" =>
              /\ req[r].incs = 1
              /\ "increment" \in req[r].writes
        /\ "increment" \in req[r].writes => req[r].incs = 1

\* one request reset the lapsed window at the gate and then aborted in
\* SearchProducts, leaving the count at 0, while the other completed
C10_Witness ==
    \E r, o \in Reqs :
        /\ r # o
        /\ req[r].failedStage = "searchProducts"
        /\ req[r].writes = {"reset"}
        /\ req[r].incs = 0
        /\ req[o].outcome = "completed"
        /\ user.searchCount = 1

(***************************************************************************)
(* SpecLimit: the checkSearchLimit middleware run by concurrent requests   *)
(* of one user, next to searches of the same user that have come to        *)
(* incrementUserSearchCount (POST /search does not pass the middleware).   *)
(* The user document exists throughout, so the 404 branch is not taken.    *)
(***************************************************************************)
\* User documents a run of the program leaves behind: a new user, and users
\* two and three searches into a window that ends at hour 100
LimitUsers ==
    { [searchCount |-> 0, searchLimitResetsAt |-> NoDate],
      [searchCount |-> SEARCH_LIMIT - 1, searchLimitResetsAt |-> 100],
      [searchCount |-> SEARCH_LIMIT, searchLimitResetsAt |-> 100] }

InitLimitState ==
    /\ user \in LimitUsers
    /\ fnow = 0
    /\ searches = {}
    /\ req = [r \in Reqs |-> NewReq]
    /\ audit = [count0 |-> user.searchCount, completed |-> 0, resets |-> 0,
                inWindow |-> user.searchCount, ticks |-> 0]

\* a mutated comparison: a user at the ceiling is let through
LimitDecideStrict(q) ==
    IF q.doc.searchCount > SEARCH_LIMIT
    THEN [q EXCEPT !.pc = "done", !.outcome = "denied",
                   !.res = [status |-> 429, limitResetsAt |-> q.doc.searchLimitResetsAt]]
    ELSE [q EXCEPT !.pc = "done", !.outcome = "allowed", !.res = [status |-> "next"]]

\* if (user.searchCount >= SEARCH_LIMIT) res.status(429).json(...) else next()
LimitDecide(q) ==
    IF q.doc.searchCount >= SEARCH_LIMIT
    THEN [q EXCEPT !.pc = "done", !.outcome = "denied",
                   !.res = [status |-> 429, limitResetsAt |-> q.doc.searchLimitResetsAt]]
    ELSE [q EXCEPT !.pc = "done", !.outcome = "allowed", !.res = [status |-> "next"]]

\* a request reaches checkSearchLimit, which awaits User.findById
LimitEnter(r) ==
    /\ req[r].pc = "new"
    /\ req' = [req EXCEPT ![r].pc = "limitRead"]
    /\ UNCHANGED <<quotaVars, rq, sp, opsVars, user, fnow, searches, audit>>

\* findById resolves: a lapsed window is reset on the copy (count 0, date
\* null) and save() awaited, otherwise the ceiling is tested at once
LimitRead(r) ==
    /\ req[r].pc = "limitRead"
    /\ LET q0 == [req[r] EXCEPT !.doc = user, !.dirty = {},
                                !.seen = [doc |-> user, at |-> fnow]]
       IN  IF user.searchLimitResetsAt # NoDate /\ fnow > user.searchLimitResetsAt
           THEN req' = [req EXCEPT ![r] =
                    [Assign(Assign(q0, "searchCount", 0), "searchLimitResetsAt", NoDate)
                        EXCEPT !.pc = "limitSave"]]
           ELSE req' = [req EXCEPT ![r] = LimitDecide(q0)]
    /\ UNCHANGED <<quotaVars, rq, sp, opsVars, user, fnow, searches, audit>>

\* the save() of the reset is applied and resolves; the ceiling is tested
LimitSave(r) ==
    /\ req[r].pc = "limitSave"
    /\ user' = SaveDoc(user, req[r].doc, req[r].dirty)
    /\ audit' = [audit EXCEPT !.resets = @ + 1, !.inWindow = 0]
    /\ req' = [req EXCEPT ![r] =
                  LimitDecide([@ EXCEPT !.writes = @ \cup {"reset"}, !.saved = user'])]
    /\ UNCHANGED <<quotaVars, rq, sp, opsVars, fnow, searches>>

\* findById or save() rejects: catch (error) { next(error) }
LimitRaises(r) ==
    /\ req[r].pc \in {"limitRead", "limitSave"}
    /\ req' = [req EXCEPT ![r] = [@ EXCEPT !.pc = "done", !.outcome = "error",
                   !.res = [status |-> "next(error)"]]]
    /\ UNCHANGED <<quotaVars, rq, sp, opsVars, user, fnow, searches, audit>>

\* a search of the user, admitted through POST /search, has saved its
\* ProductSearch and calls incrementUserSearchCount
CountedSearch(r) ==
    /\ req[r].pc = "new"
    /\ req' = [req EXCEPT ![r] = [@ EXCEPT !.pc = "incRead", !.incs = @ + 1]]
    /\ UNCHANGED <<quotaVars, rq, sp, opsVars, user, fnow, searches, audit>>

\* the client sends its next request
NextRequest(r) ==
    /\ req[r].pc = "done"
    /\ audit.completed + audit.resets < MaxLimitRounds
    /\ req' = [req EXCEPT ![r] = NewReq]
    /\ UNCHANGED <<quotaVars, rq, sp, opsVars, user, fnow, searches, audit>>

InitLimit == QuotaIdle /\ RetryIdle /\ SearchIdle /\ InitLimitState /\ OpsIdle

NextLimit ==
    \/ \E r \in Reqs : LimitEnter(r)
    \/ \E r \in Reqs : LimitRead(r)
    \/ \E r \in Reqs : LimitSave(r)
    \/ \E r \in Reqs : LimitRaises(r)
    \/ \E r \in Reqs : CountedSearch(r)
    \/ \E r \in Reqs : IncRead(r)
    \/ \E r \in Reqs : IncSave(r)
    \/ \E r \in Reqs : NextRequest(r)
    \/ \E step \in FlowSteps : FlowTick(step)

SpecLimit == InitLimit /\ [][NextLimit]_vars

(***************************************************************************)
(* Properties of checkSearchLimit (SpecLimit)                              *)
(***************************************************************************)
\* C11: a request that finds the user at the ceiling (searchCount = 3) with
\* searchLimitResetsAt later than now is denied with status 429, reports
\* exactly the stored reset time and writes nothing; one that finds
\* searchLimitResetsAt earlier than now sets searchCount to 0, saves it, and
\* is then let through (unless the save itself rejects).
C11_GateAtCeiling ==
    \A r \in Reqs :
        ( /\ req[r].seen # None
          /\ req[r].seen.doc.searchCount = SEARCH_LIMIT
          /\ req[r].seen.doc.searchLimitResetsAt # NoDate ) =>
            LET resetsAt == req[r].seen.doc.searchLimitResetsAt
            IN  /\ req[r].seen.at < resetsAt =>
                      /\ req[r].pc = "done" /\ req[r].outcome = "denied"
                      /\ req[r].res = [status |-> 429, limitResetsAt |-> resetsAt]
                      /\ req[r].writes = {}
                /\ req[r].seen.at > resetsAt =>
                      \/ req[r].pc = "limitSave" /\ req[r].doc.searchCount = 0
                      \/ /\ req[r].pc = "done" /\ req[r].outcome = "allowed"
                         /\ req[r].res = [status |-> "next"]
                         /\ req[r].writes = {"reset"}
                         /\ req[r].saved # None
                         /\ req[r].saved.searchCount = 0
                      \/ /\ req[r].pc = "done" /\ req[r].outcome = "error"
                         /\ req[r].writes = {}

\* C29: under every interleaving of checkSearchLimit runs and
\* incrementUserSearchCount calls of one user, a stored searchCount at or
\* above the ceiling comes with a stored searchLimitResetsAt, and every
\* 429 response carries a reset time.
C29_CeilingHasResetTime ==
    /\ user.searchCount >= SEARCH_LIMIT => user.searchLimitResetsAt # NoDate
    /\ \A r \in Reqs :
          (req[r].pc = "done" /\ req[r].outcome = "denied") =>
              req[r].res.limitResetsAt # NoDate

\* one request was denied at the ceiling before the window ended and it
\* reports hour 100; after the window ended the other was let through by a
\* reset that left the stored count at 0
C11_Witness ==
    \E r, o \in Reqs :
        /\ r # o
        /\ req[r].outcome = "denied"
        /\ req[r].seen.doc.searchCount = SEARCH_LIMIT
        /\ req[r].seen.at < 100
        /\ req[r].res.limitResetsAt = 100
        /\ req[o].outcome = "allowed"
        /\ req[o].seen.doc.searchCount = SEARCH_LIMIT
        /\ req[o].seen.at > 100
        /\ req[o].saved.searchCount = 0
        /\ user.searchCount = 0

(***************************************************************************)
(* Properties of the two per-user gates, the stage order and the cache     *)
(* (SpecFlow)                                                              *)
(***************************************************************************)
\* C12: in both gates, the copy of the user a gate is about to save after it
\* found the window lapsed has searchCount 0 and no searchLimitResetsAt.
C12_ResetClearsDate ==
    \A r \in Reqs :
        req[r].pc \in {"gateSave", "limitSave"} =>
            /\ req[r].doc.searchCount = 0
            /\ req[r].doc.searchLimitResetsAt = NoDate

\* C13: a search request goes on to SearchProducts only with a count, as its
\* gate read or reset it, below both ceilings (3 and 100).
C13_BothCeilingsOnSearch ==
    \A r \in Reqs :
        req[r].pc = "searchProducts" =>
            /\ req[r].doc.searchCount < SEARCH_LIMIT
            /\ req[r].doc.searchCount < WorkflowSearchLimit

IsPrefix(s, t) == Len(s) <= Len(t) /\ s = SubSeq(t, 1, Len(s))

\* C14: the stages a workflow execution has invoked are a prefix of
\* CheckUserLimits, SearchProducts, AnalyzeMarket, PredictTrends,
\* GenerateRecommendations (so none ran twice or out of turn); the stage in
\* progress, or the one that failed, is the last one invoked; and a result
\* is returned only after all five.
C14_StagesInOrder ==
    \A r \in Reqs :
        /\ IsPrefix(req[r].stagesRun, StageOrder)
        /\ req[r].pc \in Range(StageOrder) =>
              /\ req[r].stagesRun # << >>
              /\ req[r].stagesRun[Len(req[r].stagesRun)] = req[r].pc
        /\ req[r].failedStage # "" =>
              /\ req[r].stagesRun # << >>
              /\ req[r].stagesRun[Len(req[r].stagesRun)] = req[r].failedStage
              /\ req[r].wfResult = None
        /\ req[r].wfResult # None => req[r].stagesRun = StageOrder

\* one execution returned its result after the five stages while the other
\* stopped in PredictTrends' successor with all five invoked and no result
C14_Witness ==
    \E r, o \in Reqs :
        /\ r # o
        /\ req[r].wfResult # None
        /\ req[r].stagesRun = StageOrder
        /\ req[o].failedStage = "generateRecommendations"
        /\ req[o].stagesRun = StageOrder

\* C18: a request whose lookup finds a search of the same query not older
\* than the lookback returns the cached record in that step, which leaves
\* the user document, the search records and the shared quota counters
\* unchanged; such a request has invoked no stage, written nothing and not
\* called incrementUserSearchCount.
C18_CacheHitInvokesNothing ==
    /\ [](\A r \in Reqs :
            req[r].outcome = "cached" =>
                /\ req[r].pc = "done"
                /\ req[r].stagesRun = << >>
                /\ req[r].incs = 0
                /\ req[r].writes = {}
                /\ req[r].wfResult = None)
    /\ [][\A r \in Reqs :
            ( /\ req[r].pc = "new"
              /\ req'[r].pc # "new"
              /\ \E s \in searches : /\ s.query = req'[r].query
                                     /\ s.createdAt >= fnow - CacheHours ) =>
                /\ req'[r].outcome = "cached"
                /\ UNCHANGED <<user, searches, rl, callLog>>]_vars

\* a request was answered from the record that the other request's completed
\* search of the same query had saved, and the count stands at that one search
C18_Witness ==
    \E r, o \in Reqs :
        /\ r # o
        /\ req[o].outcome = "completed"
        /\ req[r].outcome = "cached"
        /\ req[r].query = req[o].query
        /\ Cardinality(searches) = 1
        /\ user.searchCount = audit.count0 + 1
        /\ audit.resets = 0

(***************************************************************************)
(* JavaScript values as the fallbacks compute them.  A finite number that  *)
(* arithmetic produces is a fraction num/den (den > 0); next to those      *)
(* there are Infinity, -Infinity and NaN.  A price, a confidence and a     *)
(* length are plain integers; a property an object lacks is absent from    *)
(* its record.                                                             *)
(***************************************************************************)
Finite(n, d) == [num |-> n, den |-> d]
PosInfinity == [inf |-> 1]
NegInfinity == [inf |-> 0 - 1]
NaN == [nan |-> TRUE]
IsFinite(x) == "num" \in DOMAIN x

\* x === y on numbers
NumEq(x, y) ==
    IF IsFinite(x) /\ IsFinite(y) THEN x.num * y.den = y.num * x.den
    ELSE x = y /\ x # NaN

\* Math.round of the non-negative fraction n/d: the nearest integer, halves up
MathRound(n, d) == (2 * n + d) \div (2 * d)

Has(v, f) == f \in DOMAIN v

RECURSIVE SumSeq(_)
SumSeq(q) == IF q = << >> THEN 0 ELSE Head(q) + SumSeq(Tail(q))

RECURSIVE PositivePrices(_)
\* products.map((p) => p.price).filter((p) => p > 0); undefined > 0 is false
PositivePrices(products) ==
    IF products = << >> THEN << >>
    ELSE LET p == Head(products)
             rest == PositivePrices(Tail(products))
         IN  IF Has(p, "price") /\ p.price > 0 THEN <<p.price>> \o rest ELSE rest

MaxOfSet(S) == CHOOSE x \in S : \A y \in S : x >= y

\* Math.min(...prices) and Math.max(...prices); of no argument they are
\* Infinity and -Infinity
MathMin(prices) ==
    IF prices = << >> THEN PosInfinity
    ELSE Finite(MinOfSet({prices[i] : i \in 1..Len(prices)}), 1)
MathMax(prices) ==
    IF prices = << >> THEN NegInfinity
    ELSE Finite(MaxOfSet({prices[i] : i \in 1..Len(prices)}), 1)

getFallbackAnalysis(products) ==
    LET prices == PositivePrices(products)
        avgPrice == IF Len(prices) > 0 THEN Finite(SumSeq(prices), Len(prices))
                    ELSE Finite(0, 1)
    IN  [t |-> "obj",
         averagePrice |-> avgPrice,
         priceRange |-> [min |-> MathMin(prices), max |-> MathMax(prices)],
         bestDeal |-> [platform |-> IF products # << >> /\ Has(products[1], "platform")
                                    THEN products[1].platform ELSE "unknown",
                       price |-> MathMin(prices),
                       reason |-> "Lowest available price"],
         EMI |-> [platform |-> "none", reason |-> "data not available"],
         marketTrend |-> "stable",
         recommendedAction |-> "monitor",
         confidence |-> 50,
         insights |-> <<"Limited data available for analysis">>]

\* products.reduce((sum, p) => sum + p.price, 0) / products.length, then
\* Math.round(avgPrice * 0.8) and Math.round(avgPrice * 1.2): a listing
\* without a price makes the sum NaN, and so does 0 / 0 for no listing
getFallbackPrediction(products) ==
    LET n == Len(products)
        known == \A i \in 1..n : Has(products[i], "price")
        sum == SumSeq([i \in 1..n |-> IF Has(products[i], "price")
                                      THEN products[i].price ELSE 0])
    IN  [t |-> "obj",
         nextMonthRange |->
             IF n = 0 \/ ~known THEN [min |-> NaN, max |-> NaN]
             ELSE [min |-> Finite(MathRound(4 * sum, 5 * n), 1),
                   max |-> Finite(MathRound(6 * sum, 5 * n), 1)],
         confidence |-> 40,
         factors |-> <<"Limited historical data", "Market volatility">>,
         bestTimeToBuy |-> "Monitor for better data"]

(***************************************************************************)
(* The object responses.  A response text is a sequence of tokens: the     *)
(* braces of JSON, "a" (the members of the sample analysis of the prompt),  *)
(* "p" (the members of a confident prediction) and "x", text that is not   *)
(* JSON; in a response to getProductByUrl, "d" (the members of a product   *)
(* that names a platform and a url of its own).                            *)
(***************************************************************************)
ObjTokens == {"{", "}", "a", "p", "x"}
ProductTokens == {"{", "}", "d", "x"}
MaxObjTextLen == 3   \* tokens in an object response text

RECURSIVE ObjTextsUpTo(_)
ObjTextsUpTo(n) ==
    IF n = 0 THEN {<< >>}
    ELSE LET shorter == ObjTextsUpTo(n - 1)
         IN  shorter \cup {Append(t, k) : t \in {u \in shorter : Len(u) = n - 1},
                                          k \in ObjTokens}

ObjTexts == ObjTextsUpTo(MaxObjTextLen)

RECURSIVE ProductTextsUpTo(_)
ProductTextsUpTo(n) ==
    IF n = 0 THEN {<< >>}
    ELSE LET shorter == ProductTextsUpTo(n - 1)
         IN  shorter \cup {Append(t, k) : t \in {u \in shorter : Len(u) = n - 1},
                                          k \in ProductTokens}

ProductTexts == ProductTextsUpTo(MaxObjTextLen)

EmptyObject == [t |-> "obj"]
AnalysisObject ==
    [t |-> "obj", averagePrice |-> Finite(1750, 1),
     priceRange |-> [min |-> Finite(1299, 1), max |-> Finite(2199, 1)],
     bestDeal |-> [platform |-> "flipkart", price |-> Finite(1299, 1),
                   reason |-> "Lowest price with good seller rating"],
     marketTrend |-> "falling", recommendedAction |-> "buy_now", confidence |-> 85]
PredictionObject ==
    [t |-> "obj", nextMonthRange |-> [min |-> Finite(1150, 1), max |-> Finite(1500, 1)],
     confidence |-> 90, bestTimeToBuy |-> "Wait for next week's sale"]

\* a product as the upstream may describe it, with a platform and a url that
\* are not those of the request
DetailsObject ==
    [t |-> "obj", title |-> "Product Title", price |-> Finite(1599, 1),
     platform |-> "croma", url |-> [host |-> <<"www", "croma", "com">>, path |-> <<"p">>]]

\* JSON.parse of a span that begins with "{" and ends with "}"
JsonParseObject(span) ==
    CASE span = <<"{", "}">>      -> [ok |-> TRUE, val |-> EmptyObject]
      [] span = <<"{", "d", "}">> -> [ok |-> TRUE, val |-> DetailsObject]
      [] span = <<"{", "a", "}">> -> [ok |-> TRUE, val |-> AnalysisObject]
      [] span = <<"{", "p", "}">> -> [ok |-> TRUE, val |-> PredictionObject]
      [] OTHER -> ParseFailure

\* result.match(/\{[\s\S]*\}/): from the first "{" to the last "}" after it
MatchObjectSpan(text) ==
    LET opens == {i \in 1..Len(text) : text[i] = "{"}
    IN  IF opens = {} THEN NoMatch
        ELSE LET first  == MinOfSet(opens)
                 closes == {j \in (first + 1)..Len(text) : text[j] = "}"}
             IN  IF closes = {} THEN NoMatch
                 ELSE SubSeq(text, first, MaxOfSet(closes))

(***************************************************************************)
(* The four operations of ProductIntelligenceService, from what            *)
(* makeGeminiRequest gave them: a thrown error or a text.  An operation    *)
(* returns a value or throws.                                              *)
(***************************************************************************)
Returned(v) == [threw |-> FALSE, value |-> v]
Threw(m) == [threw |-> TRUE, error |-> m]

\* a faulty variant of analyzeMarket without its catch
analyzeFromTextNoCatch(text, products) ==
    LET span == MatchObjectSpan(text)
    IN  IF span = NoMatch THEN Returned(getFallbackAnalysis(products))
        ELSE IF ~JsonParseObject(span).ok THEN Threw("SyntaxError")
        ELSE Returned(JsonParseObject(span).val)

\* analyzeMarket: the try block once makeGeminiRequest returned, and the catch
analyzeFromText(text, products) ==
    LET span == MatchObjectSpan(text)
    IN  IF span = NoMatch THEN Returned(getFallbackAnalysis(products))
        ELSE IF ~JsonParseObject(span).ok THEN Returned(getFallbackAnalysis(products))
        ELSE Returned(JsonParseObject(span).val)

\* a faulty variant in which a failure of makeGeminiRequest leaves analyzeMarket
analyzeFromFailureRethrows(products) == Threw("makeGeminiRequest")

\* analyzeMarket: makeGeminiRequest threw
analyzeFromFailure(products) == Returned(getFallbackAnalysis(products))

\* predictPriceTrends
predictFromText(text, products) ==
    LET span == MatchObjectSpan(text)
    IN  IF span = NoMatch THEN Returned(getFallbackPrediction(products))
        ELSE IF ~JsonParseObject(span).ok THEN Returned(getFallbackPrediction(products))
        ELSE Returned(JsonParseObject(span).val)

predictFromFailure(products) == Returned(getFallbackPrediction(products))

\* a URL: the words of its host and of the rest of it
Urls ==
    { [host |-> <<"www", "amazon", "in">>, path |-> <<"dp", "B0">>],
      [host |-> <<"www", "flipkart", "com">>, path |-> <<"amazon", "echo">>],
      [host |-> <<"shop", "example">>, path |-> <<"ajio">>],
      [host |-> <<"shop", "example">>, path |-> <<"item">>] }

\* url.includes(word)
UrlIncludes(url, word) ==
    \/ \E i \in 1..Len(url.host) : url.host[i] = word
    \/ \E i \in 1..Len(url.path) : url.path[i] = word

getPlatformFromUrl(url) ==
    CASE UrlIncludes(url, "amazon")   -> "amazon"
      [] UrlIncludes(url, "flipkart") -> "flipkart"
      [] UrlIncludes(url, "myntra")   -> "myntra"
      [] UrlIncludes(url, "meesho")   -> "meesho"
      [] UrlIncludes(url, "nykaa")    -> "nykaa"
      [] UrlIncludes(url, "ajio")     -> "ajio"
      [] OTHER -> "unknown"

\* getProductByUrl: { ...product, platform, url } or null
productFromText(text, url) ==
    LET span == MatchObjectSpan(text)
    IN  IF span = NoMatch THEN Returned(NullValue)
        ELSE IF ~JsonParseObject(span).ok THEN Returned(NullValue)
        ELSE Returned([platform |-> getPlatformFromUrl(url), url |-> url]
                          @@ JsonParseObject(span).val)

productFromFailure(url) == Returned(NullValue)

(***************************************************************************)
(* SpecOps: one call of one of the four operations against the shared      *)
(* RateLimiter and a scripted upstream.  The operation runs up to its      *)
(* first await in one step (the empty-input test of analyzeMarket, the     *)
(* quota check and record of makeGeminiRequest, the issue of attempt 1);   *)
(* then the upstream fails an attempt or returns a text.                   *)
(***************************************************************************)
OpKinds == {"searchProductsAcrossPlatforms", "analyzeMarket",
            "predictPriceTrends", "getProductByUrl"}
MaxListings == 2     \* listings in the input of analyzeMarket / predictPriceTrends
ListingPrices == {0, 15}

Listing(price) ==
    [t |-> "obj", price |-> price, platform |-> "amazon", url |-> ListedUrl]

RECURSIVE ListingsUpTo(_)
ListingsUpTo(n) ==
    IF n = 0 THEN {<< >>}
    ELSE LET shorter == ListingsUpTo(n - 1)
         IN  shorter \cup {Append(l, Listing(p)) :
                              l \in {u \in shorter : Len(u) = n - 1}, p \in ListingPrices}

\* the inputs tried: every list of up to MaxListings priced listings, and the
\* placeholder list searchProductsAcrossPlatforms falls back to
ProductLists == ListingsUpTo(MaxListings) \cup {getFallbackResults(q) : q \in Queries}

\* States of the limiter after a run of the program, and the instant of the
\* call: fresh; one unit left in the minute; the minute used up; the day
\* used up in an earlier minute; the minute used up a minute (and a
\* midnight) ago
OpsStarts ==
    { [rl  |-> [requests |-> 0, dailyRequests |-> 0,
                lastReset |-> StartOfClock, dailyReset |-> StartOfClock],
       now |-> StartOfClock],
      [rl  |-> [requests |-> requestsPerMinute - 1, dailyRequests |-> requestsPerMinute - 1,
                lastReset |-> StartOfClock, dailyReset |-> StartOfClock],
       now |-> StartOfClock],
      [rl  |-> [requests |-> requestsPerMinute, dailyRequests |-> requestsPerMinute,
                lastReset |-> StartOfClock, dailyReset |-> StartOfClock],
       now |-> StartOfClock],
      [rl  |-> [requests |-> 0, dailyRequests |-> requestsPerDay,
                lastReset |-> StartOfClock, dailyReset |-> StartOfClock - 17 * 60],
       now |-> StartOfClock],
      [rl  |-> [requests |-> requestsPerMinute, dailyRequests |-> requestsPerMinute,
                lastReset |-> StartOfClock, dailyReset |-> StartOfClock],
       now |-> StartOfClock + WindowSeconds] }

\* a faulty variant that records the unit before it asks
makeGeminiRequestRecordsFirst(r, t) ==
    LET rolled == canMakeRequestRoll(r, t)
    IN  [ok |-> canMakeRequestAnswer(rolled), rl |-> recordRequest(rolled)]

\* makeGeminiRequest up to the call of makeStreamingRequest: whether it goes
\* on, and the limiter as it leaves it
makeGeminiRequest(r, t) ==
    LET rolled == canMakeRequestRoll(r, t)
    IN  IF canMakeRequestAnswer(rolled)
        THEN [ok |-> TRUE, rl |-> recordRequest(rolled)]
        ELSE [ok |-> FALSE, rl |-> rolled]

\* what the operation returns when makeGeminiRequest threw
fromFailure(c) ==
    CASE c.kind = "searchProductsAcrossPlatforms" -> Returned(searchFromFailure(c.query))
      [] c.kind = "analyzeMarket"                 -> analyzeFromFailure(c.products)
      [] c.kind = "predictPriceTrends"            -> predictFromFailure(c.products)
      [] OTHER                                    -> productFromFailure(c.url)

\* what the operation returns when makeGeminiRequest returned text
fromText(c, text) ==
    CASE c.kind = "searchProductsAcrossPlatforms" -> Returned(searchFromText(text, c.query))
      [] c.kind = "analyzeMarket"                 -> analyzeFromText(text, c.products)
      [] c.kind = "predictPriceTrends"            -> predictFromText(text, c.products)
      [] OTHER                                    -> productFromText(text, c.url)

\* the response texts the upstream may send to an operation
ShortTexts == TextsUpTo(MaxObjTextLen)
ResponseTexts(kind) ==
    CASE kind = "searchProductsAcrossPlatforms" -> ShortTexts
      [] kind = "getProductByUrl"               -> ProductTexts
      [] OTHER                                  -> ObjTexts

NewCall(kind, query, products, url) ==
    [pc |-> "called", kind |-> kind, query |-> query, products |-> products, url |-> url,
     cause |-> "pending", text |-> << >>, out |-> None,
     \* ghost: the limiter before the call and as the quota check rolled it,
     \* the units recorded and the upstream attempts issued
     rl0 |-> None, rolled |-> None, units |-> 0, attempts |-> 0,
     \* ghost, for the operations one workflow calls in a row: the earlier
     \* ones, and the limiter as the first quota check rolled it
     earlier |-> << >>, chainStart |-> None]

InitOpsState ==
    /\ \E h \in OpsStarts : rl = h.rl /\ now = h.now
    /\ \E kind \in OpKinds :
          \/ /\ kind = "searchProductsAcrossPlatforms"
             /\ \E q \in Queries : call = NewCall(kind, q, << >>, None)
          \/ /\ kind \in {"analyzeMarket", "predictPriceTrends"}
             /\ \E l \in ProductLists : call = NewCall(kind, "", l, None)
          \/ /\ kind = "getProductByUrl"
             /\ \E u \in Urls : call = NewCall(kind, "", << >>, u)
    /\ ticks = 0 /\ callLog = << >> /\ windowStarts = {}
    /\ lastEval = [t |-> 0, prev |-> 0, before |-> rl, after |-> rl, answer |-> TRUE, n |-> 0]
    /\ op = [p \in Procs |-> IdleOp]

\* analyzeMarket([]) throws before anything else
OpRejectsEmpty ==
    /\ call.pc = "called"
    /\ call.kind = "analyzeMarket" /\ call.products = << >>
    /\ call' = [call EXCEPT !.pc = "done", !.cause = "empty",
                            !.out = Threw("No products to analyze")]
    /\ UNCHANGED <<quotaVars, rq, sp, wf, flowVars>>

\* the operation reaches makeGeminiRequest: 'Rate limit exceeded' is thrown
\* and caught by the operation, or the unit is recorded and attempt 1 issued
OpCallsGemini ==
    /\ call.pc = "called"
    /\ ~(call.kind = "analyzeMarket" /\ call.products = << >>)
    /\ LET g == makeGeminiRequest(rl, now)
           c == [call EXCEPT !.rl0 = rl, !.rolled = canMakeRequestRoll(rl, now),
                             !.chainStart = IF @ = None THEN canMakeRequestRoll(rl, now)
                                            ELSE @]
       IN  /\ rl' = g.rl
           /\ call' = IF g.ok
                      THEN [c EXCEPT !.pc = "awaiting", !.units = 1, !.attempts = 1]
                      ELSE [c EXCEPT !.pc = "done", !.cause = "quota",
                                     !.out = fromFailure(c)]
    /\ UNCHANGED <<now, ticks, callLog, windowStarts, lastEval, op, rq, sp, wf, flowVars>>

\* a faulty variant in which every retry attempt records a unit of its own
OpAttemptFailsRecords ==
    /\ call.pc = "awaiting"
    /\ call' = IF call.attempts < maxRetriesDefault
               THEN [call EXCEPT !.attempts = @ + 1, !.units = @ + 1]
               ELSE [call EXCEPT !.pc = "done", !.cause = "exhausted",
                                 !.out = fromFailure(call)]
    /\ rl' = IF call.attempts < maxRetriesDefault THEN recordRequest(rl) ELSE rl
    /\ UNCHANGED <<now, ticks, callLog, windowStarts, lastEval, op, rq, sp, wf, flowVars>>

\* an upstream attempt fails: the next one is issued after the backoff, or
\* makeStreamingRequest throws and the operation catches it
OpAttemptFails ==
    /\ call.pc = "awaiting"
    /\ call' = IF call.attempts < maxRetriesDefault
               THEN [call EXCEPT !.attempts = @ + 1]
               ELSE [call EXCEPT !.pc = "done", !.cause = "exhausted",
                                 !.out = fromFailure(call)]
    /\ UNCHANGED <<quotaVars, rq, sp, wf, flowVars>>

\* an upstream attempt streams its text to the end
OpTextReturned(text) ==
    /\ call.pc = "awaiting"
    /\ call' = [call EXCEPT !.pc = "done", !.cause = "text", !.text = text,
                            !.out = fromText(call, text)]
    /\ UNCHANGED <<quotaVars, rq, sp, wf, flowVars>>

WorkflowIdle == wf = [pc |-> "unused"]

InitOps == InitOpsState /\ RetryIdle /\ SearchIdle /\ WorkflowIdle /\ FlowIdle

NextOps ==
    \/ OpRejectsEmpty
    \/ OpCallsGemini
    \/ OpAttemptFails
    \/ \E text \in ResponseTexts(call.kind) : OpTextReturned(text)

SpecOps == InitOps /\ [][NextOps]_vars

(***************************************************************************)
(* SpecChain: the operations one workflow execution calls one after the    *)
(* other against the limiter: searchProductsAcrossPlatforms, analyzeMarket *)
(* on what it returned, predictPriceTrends on the same list.               *)
(***************************************************************************)
\* the node of the operation that ended returns and the next node calls its
\* operation (searchProductsNode throws on an empty list)
WorkflowCallsNext ==
    /\ call.pc = "done"
    /\ ~call.out.threw
    /\ LET done == Append(call.earlier, [kind |-> call.kind, cause |-> call.cause,
                                         units |-> call.units])
       IN  \/ /\ call.kind = "searchProductsAcrossPlatforms"
              /\ call.out.value # << >>
              /\ call' = [NewCall("analyzeMarket", "", call.out.value, None)
                             EXCEPT !.earlier = done, !.chainStart = call.chainStart]
           \/ /\ call.kind = "analyzeMarket"
              /\ Len(call.earlier) = 1
              /\ call' = [NewCall("predictPriceTrends", "", call.products, None)
                             EXCEPT !.earlier = done, !.chainStart = call.chainStart]
    /\ UNCHANGED <<quotaVars, rq, sp, wf, flowVars>>

InitChain == InitOps

NextChain ==
    \/ NextOps
    \/ WorkflowCallsNext

SpecChain == InitChain /\ [][NextChain]_vars

(***************************************************************************)
(* Properties of the operations (SpecOps)                                  *)
(***************************************************************************)
FellBack == 
    \/ call.cause \in {"quota", "exhausted"}
    \/ /\ call.cause = "text"
       /\ \/ MatchObjectSpan(call.text) = NoMatch
          \/ ~JsonParseObject(MatchObjectSpan(call.text)).ok

\* C16: analyzeMarket of an empty list throws, without a quota unit or an
\* upstream attempt; analyzeMarket of a non-empty list returns whatever the
\* upstream did: the parsed object when the text holds one, and the
\* fallback analysis when the quota is spent, every attempt failed, the
\* text holds no object span or the span does not parse.
C16_AnalyzeFailsOnlyOnEmpty ==
    (call.pc = "done" /\ call.kind = "analyzeMarket") =>
        IF call.products = << >>
        THEN /\ call.out.threw
             /\ call.units = 0 /\ call.attempts = 0 /\ call.rl0 = None
        ELSE /\ ~call.out.threw
             /\ IF FellBack
                THEN call.out.value = getFallbackAnalysis(call.products)
                ELSE call.out.value = JsonParseObject(MatchObjectSpan(call.text)).val

\* analyzeMarket of two listings got a text whose object span does not
\* parse, and returned the fallback analysis
C16_Witness ==
    /\ call.pc = "done" /\ call.kind = "analyzeMarket"
    /\ Len(call.products) = 2
    /\ call.cause = "text"
    /\ MatchObjectSpan(call.text) = <<"{", "x", "}">>
    /\ ~call.out.threw
    /\ call.out.value.recommendedAction = "monitor"

PricesOf(products) == [i \in 1..Len(products) |-> products[i].price]

\* C19: when analyzeMarket falls back on a non-empty list of listings with
\* non-negative integer prices, averagePrice is the mean of all the input
\* prices, priceRange is their minimum and maximum, recommendedAction is
\* monitor and confidence 50.
C19_FallbackOverAllPrices ==
    ( /\ call.pc = "done" /\ call.kind = "analyzeMarket"
      /\ call.products # << >> /\ FellBack ) =>
        LET prices == PricesOf(call.products)
            a == call.out.value
        IN  /\ NumEq(a.averagePrice, Finite(SumSeq(prices), Len(prices)))
            /\ NumEq(a.priceRange.min, MathMin(prices))
            /\ NumEq(a.priceRange.max, MathMax(prices))
            /\ a.recommendedAction = "monitor"
            /\ a.confidence = 50

NoCapacity(r) == ~canMakeRequestAnswer(r)

\* C20: a call that reaches makeGeminiRequest is turned away exactly when
\* the limiter, rolled at that instant, has no capacity; then no upstream
\* attempt is issued, no unit is recorded (the limiter is left as rolled),
\* and the operation returns its fallback (null for getProductByUrl)
\* instead of throwing.
C20_QuotaFailsFast ==
    call.rolled # None =>
        /\ (call.cause = "quota") <=> NoCapacity(call.rolled)
        /\ call.cause = "quota" =>
              /\ call.pc = "done"
              /\ call.attempts = 0 /\ call.units = 0
              /\ rl = call.rolled
              /\ rl.requests <= call.rl0.requests
              /\ rl.dailyRequests <= call.rl0.dailyRequests
              /\ ~call.out.threw
              /\ call.out.value =
                    CASE call.kind = "searchProductsAcrossPlatforms" ->
                             getFallbackResults(call.query)
                      [] call.kind = "analyzeMarket" -> getFallbackAnalysis(call.products)
                      [] call.kind = "predictPriceTrends" ->
                             getFallbackPrediction(call.products)
                      [] OTHER -> NullValue

\* the platform named by the host of a URL: the first of the six names that
\* the host contains
PlatformOfHost(url) ==
    LET InHost(word) == \E i \in 1..Len(url.host) : url.host[i] = word
    IN  CASE InHost("amazon")   -> "amazon"
          [] InHost("flipkart") -> "flipkart"
          [] InHost("myntra")   -> "myntra"
          [] InHost("meesho")   -> "meesho"
          [] InHost("nykaa")    -> "nykaa"
          [] InHost("ajio")     -> "ajio"
          [] OTHER -> "unknown"

\* C22: getProductByUrl never throws; when the quota is spent, every attempt
\* failed or the text holds no object that parses, it returns null; when
\* the text holds an object, the returned listing carries the platform
\* named by the host of the input URL and the input URL, whatever platform
\* and url the object of the text had.
C22_ProductByUrl ==
    (call.pc = "done" /\ call.kind = "getProductByUrl") =>
        /\ ~call.out.threw
        /\ IF FellBack
           THEN call.out.value = NullValue
           ELSE /\ call.out.value.platform = PlatformOfHost(call.url)
                /\ call.out.value.url = call.url

\* getProductByUrl met a limiter whose day budget was spent and returned
\* null with the counters untouched
C20_Witness ==
    /\ call.pc = "done" /\ call.kind = "getProductByUrl"
    /\ call.cause = "quota"
    /\ call.rl0.dailyRequests = requestsPerDay
    /\ rl.dailyRequests = requestsPerDay
    /\ call.out = Returned(NullValue)

(***************************************************************************)
(* SpecWorkflow: one call of executeWorkflow with the values its channels  *)
(* hold.  Each node is one step: the upstream's part in it (the quota is   *)
(* spent, every attempt fails, or a text comes back) is chosen in the      *)
(* step.  A node pushes its message onto state.messages and returns the    *)
(* state, and the graph folds the returned messages into the channel with  *)
(* the reducer left.concat(right).  Whether the state.messages a node is   *)
(* handed is the channel's own array or a copy of it is decided by the     *)
(* graph library, not by this code: both are taken.                        *)
(***************************************************************************)
Msg(text, q, n) == [text |-> text, q |-> q, n |-> n]

\* the messages reducer
messagesReducer(left, right) == left \o right

\* the messages channel after a node that pushed msg returned the state
AfterNode(w, msg) ==
    LET handed == w.messages \o <<msg>>       \* state.messages as the node returns it
        left   == IF w.aliased THEN handed ELSE w.messages
    IN  messagesReducer(left, handed)

Upstreams(texts) ==
    {[cause |-> "quota"], [cause |-> "exhausted"]}
        \cup {[cause |-> "text", text |-> t] : t \in texts}

\* searchProductsAcrossPlatforms for what the upstream did
searchProductsAcrossPlatforms(query, up) ==
    IF up.cause = "text" THEN searchFromText(up.text, query) ELSE searchFromFailure(query)

\* analyzeMarket for what the upstream did
analyzeMarket(products, up) ==
    IF products = << >> THEN Threw("No products to analyze")
    ELSE IF up.cause = "text" THEN analyzeFromText(up.text, products)
    ELSE analyzeFromFailure(products)

\* predictPriceTrends for what the upstream did
predictPriceTrends(products, up) ==
    IF up.cause = "text" THEN predictFromText(up.text, products)
    ELSE predictFromFailure(products)

Undefined == [undefined |-> TRUE]
Field(v, f) == IF Has(v, f) THEN v[f] ELSE Undefined

\* analysis.recommendedAction === "buy_now" && confidence > 70
IsBuyNow(analysis) ==
    /\ Has(analysis, "recommendedAction") /\ analysis.recommendedAction = "buy_now"
    /\ Has(analysis, "confidence") /\ analysis.confidence > 70

\* a faulty variant that looks at the trend alone
IsWaitTrendOnly(analysis, prediction) ==
    Has(analysis, "marketTrend") /\ analysis.marketTrend = "falling"

\* marketTrend === "falling" || prediction.confidence > 80
IsWait(analysis, prediction) ==
    \/ Has(analysis, "marketTrend") /\ analysis.marketTrend = "falling"
    \/ Has(prediction, "confidence") /\ prediction.confidence > 80

\* createRecommendation; reading a property of an absent bestDeal or
\* nextMonthRange is a TypeError
createRecommendation(analysis, prediction) ==
    IF IsBuyNow(analysis)
    THEN IF ~Has(analysis, "bestDeal") THEN Threw("TypeError")
         ELSE Returned([action |-> "buy_now",
                        rationale |-> <<"Best deal", analysis.bestDeal.price,
                                        analysis.bestDeal.platform>>,
                        confidence |-> analysis.confidence,
                        targetPrice |-> analysis.bestDeal.price,
                        platform |-> analysis.bestDeal.platform])
    ELSE IF IsWait(analysis, prediction)
    THEN IF ~Has(prediction, "nextMonthRange") THEN Threw("TypeError")
         ELSE Returned([action |-> "wait",
                        rationale |-> <<"Prices expected to drop", prediction.nextMonthRange,
                                        Field(prediction, "bestTimeToBuy")>>,
                        confidence |-> Field(prediction, "confidence"),
                        targetPrice |-> prediction.nextMonthRange.min,
                        timeFrame |-> Field(prediction, "bestTimeToBuy")])
    ELSE Returned([action |-> "monitor",
                   rationale |-> <<"Uncertain market", Field(analysis, "averagePrice")>>,
                   confidence |-> 50,
                   targetPrice |-> Field(analysis, "averagePrice")])

NoCauses == [s \in {"searchProducts", "analyzeMarket", "predictTrends"} |-> "pending"]

\* executeWorkflow builds the initial state and invokes the graph: the
\* channels take the input, messages through its reducer from []
InitWorkflowState ==
    \E q \in FlowQueries, a \in BOOLEAN :
        wf = [pc |-> "checkUserLimits", query |-> q, aliased |-> a,
              searchResults |-> << >>, marketAnalysis |-> NullValue,
              pricePrediction |-> NullValue, recommendations |-> NullValue,
              messages |-> messagesReducer(<< >>, <<Msg("Search for", q, 0)>>),
              error |-> NullValue,
              outcome |-> "pending", failedStage |-> "", result |-> None,
              \* ghost: what the upstream did in each operation, the stages invoked
              causes |-> NoCauses, stagesRun |-> <<"checkUserLimits">>]

\* a node throws: the invocation rejects and executeWorkflow rethrows
WfThrows(w, stage) ==
    [w EXCEPT !.pc = "done", !.outcome = "threw", !.failedStage = stage]

\* a node returned: its successor is invoked
WfEnter(w, stage) ==
    [w EXCEPT !.pc = stage, !.stagesRun = Append(@, stage)]

\* checkUserLimitsNode lets the user through
WfGatePasses ==
    /\ wf.pc = "checkUserLimits"
    /\ wf' = WfEnter([wf EXCEPT !.messages = AfterNode(wf, Msg("User limits validated", "", 0))],
                     "searchProducts")
    /\ UNCHANGED <<quotaVars, rq, sp, call, flowVars>>

\* checkUserLimitsNode throws: no user, the weekly limit, or the database
WfGateThrows ==
    /\ wf.pc = "checkUserLimits"
    /\ wf' = WfThrows(wf, "checkUserLimits")
    /\ UNCHANGED <<quotaVars, rq, sp, call, flowVars>>

searchProductsNode(up) ==
    /\ wf.pc = "searchProducts"
    /\ LET products == searchProductsAcrossPlatforms(wf.query, up)
           w == [wf EXCEPT !.causes["searchProducts"] = up.cause]
       IN  wf' = IF products = << >> THEN WfThrows(w, "searchProducts")
                 ELSE WfEnter([w EXCEPT !.searchResults = products,
                                        !.messages = AfterNode(wf, Msg("Found", "", Len(products)))],
                              "analyzeMarket")
    /\ UNCHANGED <<quotaVars, rq, sp, call, flowVars>>

analyzeMarketNode(up) ==
    /\ wf.pc = "analyzeMarket"
    /\ LET out == analyzeMarket(wf.searchResults, up)
           w == [wf EXCEPT !.causes["analyzeMarket"] = up.cause]
       IN  wf' = IF out.threw THEN WfThrows(w, "analyzeMarket")
                 ELSE WfEnter([w EXCEPT !.marketAnalysis = out.value,
                                        !.messages = AfterNode(wf, Msg("Market analysis complete", "", 0))],
                              "predictTrends")
    /\ UNCHANGED <<quotaVars, rq, sp, call, flowVars>>

predictTrendsNode(up) ==
    /\ wf.pc = "predictTrends"
    /\ LET out == predictPriceTrends(wf.searchResults, up)
           w == [wf EXCEPT !.causes["predictTrends"] = up.cause]
       IN  wf' = IF out.threw THEN WfThrows(w, "predictTrends")
                 ELSE WfEnter([w EXCEPT !.pricePrediction = out.value,
                                        !.messages = AfterNode(wf, Msg("Price prediction complete", "", 0))],
                              "generateRecommendations")
    /\ UNCHANGED <<quotaVars, rq, sp, call, flowVars>>

\* generateRecommendationsNode, and after it the end of the graph:
\* executeWorkflow returns the channels, each message as its content
generateRecommendationsNode ==
    /\ wf.pc = "generateRecommendations"
    /\ LET out == createRecommendation(wf.marketAnalysis, wf.pricePrediction)
       IN  wf' = IF out.threw THEN WfThrows(wf, "generateRecommendations")
                 ELSE LET msgs == AfterNode(wf, Msg("Recommendation generated", "", 0))
                          recs == <<out.value>>
                      IN  [wf EXCEPT !.pc = "done", !.outcome = "returned",
                                     !.recommendations = recs,
                                     !.messages = msgs,
                                     !.result = [query |-> wf.query,
                                                 searchResults |-> wf.searchResults,
                                                 marketAnalysis |-> wf.marketAnalysis,
                                                 pricePrediction |-> wf.pricePrediction,
                                                 recommendations |-> recs,
                                                 messages |-> msgs,
                                                 error |-> wf.error]]
    /\ UNCHANGED <<quotaVars, rq, sp, call, flowVars>>

CallIdle == call = [pc |-> "unused"]

InitWorkflow == QuotaIdle /\ RetryIdle /\ SearchIdle /\ CallIdle /\ InitWorkflowState /\ FlowIdle

NextWorkflow ==
    \/ WfGatePasses
    \/ WfGateThrows
    \/ \E up \in Upstreams(ShortTexts) : searchProductsNode(up)
    \/ \E up \in Upstreams(ObjTexts) : analyzeMarketNode(up)
    \/ \E up \in Upstreams(ObjTexts) : predictTrendsNode(up)
    \/ generateRecommendationsNode

SpecWorkflow == InitWorkflow /\ [][NextWorkflow]_vars

\* every awaited call of a node returns or fails in the end
SpecWorkflowLive == SpecWorkflow /\ WF_vars(NextWorkflow)

(***************************************************************************)
(* SpecRecommend: createRecommendation applied to analyses and predictions *)
(* of the declared types, with confidences on both sides of the two        *)
(* thresholds, and to two product lists (its third argument).              *)
(***************************************************************************)
AnalysisConfidences == {50, 70, 71, 85}
PredictionConfidences == {40, 80, 81, 90}

Analyses ==
    { [t |-> "obj", averagePrice |-> Finite(1750, 1),
       priceRange |-> [min |-> Finite(1299, 1), max |-> Finite(2199, 1)],
       bestDeal |-> [platform |-> "flipkart", price |-> Finite(1299, 1),
                     reason |-> "Lowest price with good seller rating"],
       marketTrend |-> trend, recommendedAction |-> action, confidence |-> c] :
         trend \in {"rising", "falling", "stable"},
         action \in {"buy_now", "wait", "monitor"},
         c \in AnalysisConfidences }

Predictions ==
    { [t |-> "obj", nextMonthRange |-> [min |-> Finite(1150, 1), max |-> Finite(1500, 1)],
       confidence |-> c, bestTimeToBuy |-> "Wait for next week's sale"] :
         c \in PredictionConfidences }

InitRecommendState ==
    \E a \in Analyses, p \in Predictions, q \in FlowQueries :
        \E l \in {getFallbackResults(q), <<ProductWithUrl>>} :
            wf = [pc |-> "generateRecommendations", marketAnalysis |-> a,
                  pricePrediction |-> p, searchResults |-> l, out |-> None]

\* this.createRecommendation(state.marketAnalysis!, state.pricePrediction!,
\* state.searchResults): a synchronous call, nothing is awaited in it
ApplyCreateRecommendation ==
    /\ wf.pc = "generateRecommendations"
    /\ wf' = [wf EXCEPT !.pc = "recommended",
                        !.out = createRecommendation(wf.marketAnalysis, wf.pricePrediction)]
    /\ UNCHANGED <<quotaVars, rq, sp, call, flowVars>>

InitRecommend ==
    QuotaIdle /\ RetryIdle /\ SearchIdle /\ CallIdle /\ InitRecommendState /\ FlowIdle

NextRecommend == ApplyCreateRecommendation

SpecRecommend == InitRecommend /\ [][NextRecommend]_vars

(***************************************************************************)
(* Properties of the workflow's channels (SpecWorkflow)                    *)
(***************************************************************************)
\* C15: the trace a successful workflow returns is the 'Search for' message
\* followed by exactly the five stage messages, in stage order, each once.
C15_OneMessagePerStage ==
    (wf.pc = "done" /\ wf.outcome = "returned") =>
        wf.result.messages =
            << Msg("Search for", wf.query, 0),
               Msg("User limits validated", "", 0),
               Msg("Found", "", Len(wf.searchResults)),
               Msg("Market analysis complete", "", 0),
               Msg("Price prediction complete", "", 0),
               Msg("Recommendation generated", "", 0) >>

\* C25: when a stage throws, the error field of the workflow's state is
\* set, the stage that threw is the last one invoked, and executeWorkflow
\* hands no result to its caller (it throws 'Workflow failed: ...').
C25_StageFailureSetsError ==
    (wf.pc = "done" /\ wf.outcome = "threw") =>
        /\ wf.error # NullValue
        /\ wf.stagesRun[Len(wf.stagesRun)] = wf.failedStage
        /\ wf.result = None

\* every execution of the workflow ends, returning or throwing, given
\* that each operation of a node ends
WorkflowTerminates == <>(wf.pc = "done" /\ wf.outcome \in {"returned", "threw"})

UpstreamFailed(stage) == wf.causes[stage] \in {"quota", "exhausted"}

\* C17: a workflow past the user gate in which the upstream has failed in
\* every operation so far (quota spent or every attempt failed) has not
\* aborted, every stage it has passed has left its fallback in the state,
\* and when all three operations failed it ends returning searchResults,
\* marketAnalysis, pricePrediction and one monitor recommendation built
\* from the fallbacks, with error null; and every execution ends.
C17_FallbacksCarryThePipeline ==
    /\ []( ( /\ wf.failedStage # "checkUserLimits"
             /\ \A s \in DOMAIN wf.causes : wf.causes[s] = "pending" \/ UpstreamFailed(s) ) =>
            /\ wf.outcome # "threw"
            /\ UpstreamFailed("searchProducts") =>
                   wf.searchResults = getFallbackResults(wf.query)
            /\ UpstreamFailed("analyzeMarket") =>
                   wf.marketAnalysis = getFallbackAnalysis(wf.searchResults)
            /\ UpstreamFailed("predictTrends") =>
                   wf.pricePrediction = getFallbackPrediction(wf.searchResults)
            /\ wf.pc = "done" =>
                   /\ \A s \in DOMAIN wf.causes : UpstreamFailed(s)
                   /\ wf.outcome = "returned"
                   /\ wf.result.searchResults = getFallbackResults(wf.query)
                   /\ wf.result.marketAnalysis = getFallbackAnalysis(wf.result.searchResults)
                   /\ wf.result.pricePrediction = getFallbackPrediction(wf.result.searchResults)
                   /\ Len(wf.result.recommendations) = 1
                   /\ wf.result.recommendations[1].action = "monitor"
                   /\ wf.result.error = NullValue )
    /\ <>(wf.pc = "done")

\* the quota was spent for the search, every attempt failed for the
\* analysis and for the prediction, and the workflow returned a monitor
\* recommendation at the fallback's average price of 0
C17_Witness ==
    /\ wf.pc = "done" /\ wf.outcome = "returned"
    /\ wf.causes["searchProducts"] = "quota"
    /\ wf.causes["analyzeMarket"] = "exhausted"
    /\ wf.causes["predictTrends"] = "exhausted"
    /\ wf.result.searchResults[1].platform = "unknown"
    /\ wf.result.recommendations[1].confidence = 50
    /\ NumEq(wf.result.recommendations[1].targetPrice, Finite(0, 1))

(***************************************************************************)
(* Properties of createRecommendation (SpecRecommend)                      *)
(***************************************************************************)
\* C23: the recommendation is fixed by the analysis and the prediction: its
\* action is buy_now exactly when recommendedAction = buy_now and the
\* analysis' confidence is above 70; otherwise wait exactly when the trend
\* is falling or the prediction's confidence is above 80; otherwise
\* monitor, with confidence 50 and targetPrice = averagePrice.  It does not
\* depend on the product list, and the step that computes it touches
\* neither the limiter nor its call log.
C23_RecommendationIsAFunction ==
    /\ []( wf.pc = "recommended" =>
            LET a == wf.marketAnalysis
                p == wf.pricePrediction
                buy  == a.recommendedAction = "buy_now" /\ a.confidence > 70
                wait == ~buy /\ (a.marketTrend = "falling" \/ p.confidence > 80)
                r == wf.out.value
            IN  /\ ~wf.out.threw
                /\ r.action = "buy_now" <=> buy
                /\ r.action = "wait" <=> wait
                /\ r.action = "monitor" <=> (~buy /\ ~wait)
                /\ r.action = "monitor" =>
                       r.confidence = 50 /\ r.targetPrice = a.averagePrice
                /\ r.action = "buy_now" =>
                       r.confidence = a.confidence /\ r.targetPrice = a.bestDeal.price
                /\ r.action = "wait" =>
                       r.confidence = p.confidence /\ r.targetPrice = p.nextMonthRange.min )
    /\ [][ wf.pc = "generateRecommendations" =>
              /\ wf'.out = createRecommendation(wf.marketAnalysis, wf.pricePrediction)
              /\ UNCHANGED <<rl, callLog, call>> ]_vars

\* an analysis that says buy_now with confidence exactly 70 and a stable
\* trend, with a prediction of confidence 81: the recommendation is wait
C23_Witness ==
    /\ wf.pc = "recommended"
    /\ wf.marketAnalysis.recommendedAction = "buy_now"
    /\ wf.marketAnalysis.confidence = 70
    /\ wf.marketAnalysis.marketTrend = "stable"
    /\ wf.pricePrediction.confidence = 81
    /\ wf.out.value.action = "wait"

(***************************************************************************)
(* SpecIncrement: concurrent calls of incrementUserSearchCount for one     *)
(* user id, whose document may not exist.                                  *)
(***************************************************************************)
\* no document; a new user; a user whose window a gate has just restarted;
\* users one and two searches into a window that ends at hour 100
IncrementUsers ==
    { NoUser,
      [searchCount |-> 0, searchLimitResetsAt |-> NoDate],
      [searchCount |-> 0, searchLimitResetsAt |-> 100],
      [searchCount |-> 1, searchLimitResetsAt |-> 100],
      [searchCount |-> 2, searchLimitResetsAt |-> 100] }

InitIncrementState ==
    /\ user \in IncrementUsers
    /\ fnow = 0
    /\ searches = {}
    /\ req = [r \in Reqs |-> NewReq]
    /\ audit = [count0 |-> IF user = NoUser THEN 0 ELSE user.searchCount,
                completed |-> 0, resets |-> 0,
                inWindow |-> IF user = NoUser THEN 0 ELSE user.searchCount, ticks |-> 0]

InitIncrement == QuotaIdle /\ RetryIdle /\ SearchIdle /\ InitIncrementState /\ OpsIdle

NextIncrement ==
    \/ \E r \in Reqs : CountedSearch(r)
    \/ \E r \in Reqs : IncRead(r)
    \/ \E r \in Reqs : IncSave(r)
    \/ \E r \in Reqs : NextRequest(r)
    \/ \E step \in FlowSteps : FlowTick(step)

SpecIncrement == InitIncrement /\ [][NextIncrement]_vars

\* C26: a call of incrementUserSearchCount that finds no user changes
\* nothing; one that finds the user writes the count it read plus one, and
\* writes searchLimitResetsAt = now + 7 days (now: when it read) exactly when
\* the count it read was 0; otherwise its save leaves the stored
\* searchLimitResetsAt as it is.
C26_IncrementFrame ==
    [][ \A r \in Reqs :
          /\ (req[r].pc = "incRead" /\ req'[r].pc = "done") =>
                 user = NoUser /\ user' = user
          /\ (req[r].pc = "incRead" /\ req'[r].pc = "incSave") =>
                 /\ user' = user
                 /\ req'[r].doc.searchCount = user.searchCount + 1
                 /\ req'[r].doc.searchLimitResetsAt =
                        IF user.searchCount = 0 THEN fnow + WeekHours
                        ELSE user.searchLimitResetsAt
          /\ (req[r].pc = "incSave" /\ req'[r].pc = "done") =>
                 /\ user'.searchCount = req[r].doc.searchCount
                 /\ user'.searchLimitResetsAt =
                        IF req[r].doc.searchCount = 1
                        THEN req[r].doc.searchLimitResetsAt
                        ELSE user.searchLimitResetsAt ]_vars

\* a call that read count 0 at hour 1 has saved count 1 with the window
\* ending a week later, and a second call that read count 1 has saved
\* count 2 and left that date alone
C26_Witness ==
    /\ \A r \in Reqs : req[r].pc = "done" /\ req[r].outcome = "completed"
    /\ audit.count0 = 0
    /\ user = [searchCount |-> 2, searchLimitResetsAt |-> 1 + WeekHours]

(***************************************************************************)
(* Properties of the units the operations record (SpecChain)               *)
(***************************************************************************)
UnitsSoFar == call.units + SumSeq([i \in 1..Len(call.earlier) |-> call.earlier[i].units])

\* C28: an operation that passed the quota check has recorded exactly one
\* unit on both counters by the time its first attempt is out, further
\* attempts record nothing and the unit stays when every attempt failed;
\* analyzeMarket of an empty list records nothing; and a workflow whose
\* three operations all got their text has recorded exactly three units.
C28_OneUnitPerOperation ==
    /\ []( /\ call.cause = "empty" => call.units = 0 /\ call.rolled = None
           /\ call.attempts >= 1 => call.units = 1
           /\ (call.rolled # None /\ call.cause # "quota") =>
                  /\ call.units = 1 /\ call.attempts \in 1..maxRetriesDefault
                  /\ rl.requests = call.rolled.requests + 1
                  /\ rl.dailyRequests = call.rolled.dailyRequests + 1
           /\ ( /\ call.kind = "predictPriceTrends" /\ Len(call.earlier) = 2
                /\ call.cause = "text"
                /\ \A i \in 1..2 : call.earlier[i].cause = "text" ) =>
                  /\ UnitsSoFar = 3
                  /\ rl.requests = call.chainStart.requests + 3
                  /\ rl.dailyRequests = call.chainStart.dailyRequests + 3 )
    /\ [][ /\ call'.cause = "empty" => rl' = rl
           /\ call.pc = "awaiting" => rl' = rl ]_vars

\* the search got its text on the third attempt, the analysis on the first
\* and the prediction on the second: three units on a limiter that had
\* recorded none
C28_Witness ==
    /\ call.pc = "done" /\ call.kind = "predictPriceTrends" /\ call.cause = "text"
    /\ call.attempts = 2
    /\ Len(call.earlier) = 2
    /\ \A i \in 1..2 : call.earlier[i].cause = "text"
    /\ call.chainStart.requests = 0
    /\ rl.requests = 3 /\ rl.dailyRequests = 3
====
